---- MODULE Spec2Model ----
(***************************************************************************)
(* Editing session of src/components/EditorClient.tsx: the bounded undo    *)
(* history, the live document (the DOM under bodyRef), the React state     *)
(* that is rendered into it, the pending timers and the element clipboard. *)
(*                                                                         *)
(* A document is a sequence of top-level elements of the template body.    *)
(* The serialised markup (innerHTML) of a document is the sequence itself: *)
(* every attribute the code writes (element ids, the selection marker,     *)
(* dash arrays, column spans) is a field of the element, so two markups    *)
(* are the same string exactly when the sequences are equal.               *)
(***************************************************************************)
EXTENDS Integers, Sequences, FiniteSets, TLC

(* ------------------------------ constants ------------------------------ *)

MAX_HISTORY == 60
FONT_SIZE_MIN == 10
FONT_SIZE_MAX == 72
FONT_SIZE_STEP == 2

(* -------------------------------- bounds ------------------------------- *)

\* distinct text contents a user can type into an editable region
MaxText == 2
\* distinct inline formats of an editable region (0 = unformatted)
MaxFmt == 1
\* distinct values Math.random can give the data-element-id of a document
MaxStamp == 2
\* longest history the editing specification lets a recording action start from
MaxLen == 3
\* pending setTimeout(..., 0) callbacks
MaxTimers == 2
\* elements a document can grow to by pasting
MaxElems == 2
\* the viewport of the marquee specification: client coordinates 0..GridW
\* by 0..GridH
GridW == 3
GridH == 7
\* spans nested around the text of one region
MaxNest == 2
\* floating images on the canvas at once, and the values Date.now takes
MaxImages == 1
\* how far from the canvas origin a drag can take a floating image
MaxCoord == 80
\* how large a resize can make a floating image
MaxSize == 330
\* largest denominator of a floating image's width and height
MaxDen == 4
\* export operations that have started and not finished
MaxExports == 2

Texts == 1..MaxText
Fmts == 0..MaxFmt
Stamps == 1..MaxStamp

ColorVars == {"--bg", "--fg"}
ColorVals == {"#000000", "#112233"}

(* ------------------------------- documents ----------------------------- *)

\* One top-level element: tx is the text of its editable region (0: none),
\* fmt its inline formatting, eid its data-element-id (0: attribute absent),
\* sel the "element-selected" class; d1, d2, off are the dash lengths and
\* offset of a chart's two arcs (or the column spans of a grid row) and lb
\* the percentage labels found next to a chart; style is the inline style a
\* resize wrote (<<>>: none).
Elem(kind, tx) ==
    [kind |-> kind, tx |-> tx, fmt |-> 0, eid |-> 0, sel |-> FALSE,
     d1 |-> 0, d2 |-> 0, off |-> 0, lb |-> <<>>, style |-> <<>>]

Box(tx) == Elem("box", tx)

Snapshot(body, colors) == [bodyHTML |-> body, colors |-> colors]

\* parseTemplateHtml: the body fragment and the default colour of every
\* variable, for the templates of the model: 1 one editable paragraph,
\* 2 a block and a paragraph, 3 a block without text, 4 a block and an
\* image, 5 two charts, 6 to 8 grid rows with a bar cell and a value cell,
\* 9 three paragraphs, 10 two paragraphs of different font sizes, 11 one
\* paragraph laid out 60 by 30 px at (100, 100), 12 a block and an image
\* inside a wrapper element
TemplateIds == 1..12

\* the elements of template id are the children of a wrapper element of the
\* body (otherwise: of the body itself)
Wrapped(id) == id = 12

DefaultColors == [v \in ColorVars |-> "#000000"]

Chart(p, labels) ==
    [Elem("chart", 0) EXCEPT !.d1 = p, !.d2 = 100 - p, !.off = 0 - p, !.lb = labels]

\* a grid row: val the number in the value cell (-1: the text is no number),
\* bar and value the col-span-N classes of the two cells (-1: no such class)
Row(val, bar, value) ==
    [Elem("row", val) EXCEPT !.d1 = bar, !.d2 = value]

\* a paragraph of text whose own computed font size is size px; lb lists
\* the font sizes of the spans nested around its text, outermost first
Para(size) == [Box(1) EXCEPT !.d1 = size]

parseTemplateHtml(id) ==
    [bodyHTML |-> CASE id = 1 -> <<Box(1)>>
                    [] id = 2 -> <<Box(0), Box(1)>>
                    [] id = 3 -> <<Box(0)>>
                    [] id = 4 -> <<Box(0), Elem("img", 0)>>
                    [] id = 5 -> <<Chart(60, <<60, 60, 40>>), Chart(25, <<>>)>>
                    [] id = 6 -> <<Row(50, 3, 9)>>
                    [] id = 7 -> <<Row(-1, 4, -1)>>
                    [] id = 8 -> <<Row(150, -1, 7)>>
                    [] id = 9 -> <<Box(1), Box(1), Box(1)>>
                    [] id = 10 -> <<Para(16), Para(70)>>
                    [] id = 12 -> <<Box(0), Elem("img", 0)>>
                    [] OTHER -> <<Box(1)>>,
     initialColors |-> DefaultColors]

(* ----------------------------- stored values -------------------------- *)

\* A stored text is the record JSON.stringify wrote for a snapshot, or one of
\* the texts below. A property a parsed object lacks reads as Undefined.
Undefined == <<>>

\* a text that is not JSON
NotJson == [syntax |-> "error"]

\* the text "null"
JsonNull == [null |-> TRUE]

\* the text "{}"
JsonEmpty == [bodyHTML |-> Undefined, colors |-> Undefined]

\* the text of an object with a bodyHTML and no colors
JsonNoColors(body) == [bodyHTML |-> body, colors |-> Undefined]

\* JSON.stringify({ bodyHTML: snapshot.bodyHTML, colors: snapshot.colors })
JSONstringify(snapshot) == [bodyHTML |-> snapshot.bodyHTML, colors |-> snapshot.colors]

\* JSON.parse: the value in a sequence, <<>> when it throws
JSONparse(raw) == IF raw = NotJson THEN <<>> ELSE <<raw>>

(* ------------------------------- helpers ------------------------------- *)

\* areSnapshotsEqual with the key-count test inverted
areSnapshotsEqual_countInverted(base, b) ==
    IF Len(base) = 0 THEN FALSE
    ELSE LET a == base[Len(base)] IN
         IF a.bodyHTML # b.bodyHTML THEN FALSE
         ELSE IF Cardinality(DOMAIN a.colors) = Cardinality(DOMAIN b.colors) THEN FALSE
         ELSE \A key \in DOMAIN b.colors :
                  key \in DOMAIN a.colors /\ a.colors[key] = b.colors[key]

areSnapshotsEqual(base, b) ==
    IF Len(base) = 0 THEN FALSE
    ELSE LET a == base[Len(base)] IN
         IF a.bodyHTML # b.bodyHTML THEN FALSE
         ELSE IF Cardinality(DOMAIN a.colors) # Cardinality(DOMAIN b.colors) THEN FALSE
         ELSE \A key \in DOMAIN b.colors :
                  key \in DOMAIN a.colors /\ a.colors[key] = b.colors[key]

\* Math.round(12 * pct / 100) for an integer pct
RoundSpan(pct) == (12 * pct + 50) \div 100

Clamp(lo, hi, x) == IF x < lo THEN lo ELSE IF x > hi THEN hi ELSE x

\* syncRow without the early return on a span below 1
syncRow_noGuard(e) ==
    IF e.kind # "row" \/ e.tx < 0 THEN e
    ELSE LET pct == Clamp(0, 100, e.tx)
             barCols == RoundSpan(pct)
             valueCols == 12 - barCols
         IN [e EXCEPT !.d1 = IF e.d1 < 0 THEN e.d1 ELSE barCols,
                      !.d2 = IF e.d2 < 0 THEN e.d2 ELSE valueCols]

\* syncDemographicBars: a grid row (kind "row") holds the value text in tx
\* (-1: not a number) and the two col-span classes in d1 and d2 (-1: no class)
syncRow(e) ==
    IF e.kind # "row" \/ e.tx < 0 THEN e
    ELSE LET pct == Clamp(0, 100, e.tx)
             barCols == RoundSpan(pct)
             valueCols == 12 - barCols
         IN IF barCols < 1 \/ valueCols < 1 THEN e
            ELSE [e EXCEPT !.d1 = IF e.d1 < 0 THEN e.d1 ELSE barCols,
                           !.d2 = IF e.d2 < 0 THEN e.d2 ELSE valueCols]

syncDemographicBars(d) == [i \in 1..Len(d) |-> syncRow(d[i])]

\* setupEditable: every element with text gets contenteditable and a fresh
\* random data-element-id (g is the value Math.random produced)
setupEditable(d, g) ==
    [i \in 1..Len(d) |-> IF \/ d[i].tx > 0 /\ d[i].kind = "box"
                            \/ d[i].kind = "row"
                         THEN [d[i] EXCEPT !.eid = g] ELSE d[i]]

\* the read-mode branch of the setup effect: contenteditable and
\* data-editable are removed, data-element-id stays (a negative eid)
readOnly(d) ==
    [i \in 1..Len(d) |-> IF d[i].eid > 0 THEN [d[i] EXCEPT !.eid = 0 - d[i].eid]
                         ELSE d[i]]

\* detectAllPieCharts: the svgs with two dashed paths whose first dash length
\* parses to a value in (0, 100]
detectAllPieCharts(d) ==
    {i \in 1..Len(d) : d[i].kind = "chart" /\ d[i].d1 > 0 /\ d[i].d1 <= 100}

\* detectPieChart: the value of the first such chart (-1: none)
detectPieChart(d) ==
    IF detectAllPieCharts(d) = {} THEN -1
    ELSE d[CHOOSE i \in detectAllPieCharts(d) :
               \A j \in detectAllPieCharts(d) : i <= j].d1

HasEditable(d) ==
    \E i \in 1..Len(d) : (d[i].tx > 0 \/ d[i].kind = "row") /\ d[i].eid > 0

(* -------------------------------- state -------------------------------- *)

VARIABLES
    template,       \* template.id of the template prop
    history,        \* historyRef.current
    historyIndex,   \* historyIndexRef.current (0-based, -1: empty)
    skipPush,       \* skipPushRef.current
    tasks,          \* pending setTimeout(..., 0) callbacks, in the order they were set
    bodyHTML,       \* React state bodyHTML
    colorValues,    \* React state colorValues
    dom,            \* bodyRef.current.innerHTML, the live document
    lastSynced,     \* lastBodyHTMLSyncedRef.current (<<>>: null)
    effColors,      \* colorValues closed over by the listeners of the setup effect
    pendingSetup,   \* deferred setupEditable runs (requestAnimationFrame, 100 ms retry)
    colorTimer,     \* pending colour debounce timer (<<>>: none)
    saveTimer,      \* pending auto-save timer (<<>>: none)
    storage,        \* localStorage under SAVE_KEY(id) (<<>>: absent)
    hasSavedState,  \* React state hasSavedState
    copies,         \* localStorage values under COPY_KEY_PREFIX(id)
    selected,       \* selectedElementRef: 0 null, i > 0 the i-th element, -1 a detached node
                    \* without parent, -2 a detached node inside its detached wrapper
    detached,       \* the node selectedElementRef holds once it is detached (<<>>: none)
    copied,         \* copiedElementHtmlRef (<<>>: empty string)
    pieValue,       \* React state pieValue (-1: null)
    multiSelected,  \* multiSelectedEditablesRef (i > 0: the i-th element, i < 0: a detached node)
    marquee,        \* marqueeRectRef.current (<<>>: null)
    textToolbar,    \* React state textToolbar is not null
    floatingImages, \* React state floatingImages
    isBusy,         \* React state isBusy
    exports,        \* the export operations that have started and not finished
    hasError,       \* state.hasError of EditorErrorBoundary: the fallback is shown
    resizeTarget,   \* React state resizeTarget (0: null, i > 0: the i-th element, i < 0: a detached node)
    resizingRef,    \* resizingRef.current of ResizeHandles (<<>>: null)
    room,           \* longest history a recording action may start from (a bound, fixed by Init)
    isEditMode,     \* React state isEditMode (FALSE: read mode)
    last            \* the operation that produced this state, for stating the properties

vars == <<template, history, historyIndex, skipPush, tasks, bodyHTML,
          colorValues, dom, lastSynced, effColors, pendingSetup, colorTimer,
          saveTimer, storage, hasSavedState, copies, selected, detached, copied,
          pieValue, multiSelected, marquee, textToolbar, floatingImages,
          isBusy, exports, hasError, resizeTarget, resizingRef, room, isEditMode, last>>

\* what a render writes
docVars == <<bodyHTML, colorValues, dom, lastSynced, effColors, pendingSetup,
             selected, detached, pieValue, multiSelected, resizeTarget>>

\* what only the gesture, floating-image and export handlers write
uiVars == <<marquee, textToolbar, floatingImages, isBusy, exports, hasError,
           resizingRef>>

\* what pushSnapshot writes
histVars == <<history, historyIndex, saveTimer>>

storeVars == <<storage, hasSavedState, copies>>

\* rec: a push was recorded; ev: it evicted the oldest snapshot; cut: it
\* discarded snapshots after the cursor; moved: undo or redo moved the cursor;
\* att: the snapshot handed to pushSnapshot; top0: the snapshot at the cursor
\* before the operation; dom0, col0: the live document and colours before it;
\* flag: the operation changed the live document; p: the percentage given;
\* toast: the message the operation handed to setToast ("": none); type: the
\* kind of export; result: how the promise of the export function settled
Op(name) ==
    [op |-> name, rec |-> FALSE, ev |-> FALSE, cut |-> FALSE, moved |-> FALSE,
     att |-> <<>>, top0 |-> <<>>, dom0 |-> <<>>, col0 |-> <<>>, flag |-> FALSE,
     p |-> 0, toast |-> "", type |-> "", result |-> ""]

canRedo == historyIndex >= 0 /\ historyIndex < Len(history) - 1

AtCursor(h, idx) == IF idx >= 0 /\ idx < Len(h) THEN <<h[idx + 1]>> ELSE <<>>

SkipTask == [k |-> "skip", colors |-> DefaultColors]
CommitTask(colors) == [k |-> "commit", colors |-> colors]

(* ---------------------------- history manager -------------------------- *)

\* pushSnapshot without the eviction of the oldest snapshot
pushSnapshot_noEvict(h, idx, skip, timer, id, snapshot) ==
    IF skip
    THEN [history |-> h, historyIndex |-> idx, saveTimer |-> timer,
          rec |-> FALSE, ev |-> FALSE, cut |-> FALSE]
    ELSE LET base == SubSeq(h, 1, idx + 1) IN
         IF areSnapshotsEqual(base, snapshot)
         THEN [history |-> h, historyIndex |-> idx, saveTimer |-> timer,
               rec |-> FALSE, ev |-> FALSE, cut |-> FALSE]
         ELSE LET pushed == Append(base, snapshot)
              IN [history |-> pushed, historyIndex |-> Len(pushed) - 1,
                  saveTimer |-> << [id |-> id, snap |-> snapshot] >>,
                  rec |-> TRUE, ev |-> Len(pushed) > MAX_HISTORY,
                  cut |-> Len(base) < Len(h)]

\* pushSnapshot with the cursor computed before the eviction
pushSnapshot_cursorBeforeShift(h, idx, skip, timer, id, snapshot) ==
    IF skip
    THEN [history |-> h, historyIndex |-> idx, saveTimer |-> timer,
          rec |-> FALSE, ev |-> FALSE, cut |-> FALSE]
    ELSE LET base == SubSeq(h, 1, idx + 1) IN
         IF areSnapshotsEqual(base, snapshot)
         THEN [history |-> h, historyIndex |-> idx, saveTimer |-> timer,
               rec |-> FALSE, ev |-> FALSE, cut |-> FALSE]
         ELSE LET pushed == Append(base, snapshot)
                  kept == IF Len(pushed) > MAX_HISTORY THEN Tail(pushed) ELSE pushed
              IN [history |-> kept, historyIndex |-> Len(pushed) - 1,
                  saveTimer |-> << [id |-> id, snap |-> snapshot] >>,
                  rec |-> TRUE, ev |-> Len(pushed) > MAX_HISTORY,
                  cut |-> Len(base) < Len(h)]

\* pushSnapshot that appends to the whole history instead of the part up to
\* the cursor
pushSnapshot_noTruncate(h, idx, skip, timer, id, snapshot) ==
    IF skip
    THEN [history |-> h, historyIndex |-> idx, saveTimer |-> timer,
          rec |-> FALSE, ev |-> FALSE, cut |-> FALSE]
    ELSE LET base == SubSeq(h, 1, idx + 1) IN
         IF areSnapshotsEqual(base, snapshot)
         THEN [history |-> h, historyIndex |-> idx, saveTimer |-> timer,
               rec |-> FALSE, ev |-> FALSE, cut |-> FALSE]
         ELSE LET pushed == Append(h, snapshot)
                  kept == IF Len(pushed) > MAX_HISTORY THEN Tail(pushed) ELSE pushed
              IN [history |-> kept, historyIndex |-> Len(kept) - 1,
                  saveTimer |-> << [id |-> id, snap |-> snapshot] >>,
                  rec |-> TRUE, ev |-> Len(pushed) > MAX_HISTORY,
                  cut |-> Len(base) < Len(h)]

\* pushSnapshot: the history, cursor and auto-save timer it leaves behind
pushSnapshot(h, idx, skip, timer, id, snapshot) ==
    IF skip
    THEN [history |-> h, historyIndex |-> idx, saveTimer |-> timer,
          rec |-> FALSE, ev |-> FALSE, cut |-> FALSE]
    ELSE LET base == SubSeq(h, 1, idx + 1) IN
         IF areSnapshotsEqual(base, snapshot)
         THEN [history |-> h, historyIndex |-> idx, saveTimer |-> timer,
               rec |-> FALSE, ev |-> FALSE, cut |-> FALSE]
         ELSE LET pushed == Append(base, snapshot)
                  kept == IF Len(pushed) > MAX_HISTORY THEN Tail(pushed) ELSE pushed
              IN [history |-> kept, historyIndex |-> Len(kept) - 1,
                  saveTimer |-> << [id |-> id, snap |-> snapshot] >>,
                  rec |-> TRUE, ev |-> Len(pushed) > MAX_HISTORY,
                  cut |-> Len(base) < Len(h)]

\* the record of a handler that called pushSnapshot
PushOp(name, r, snapshot) ==
    [Op(name) EXCEPT !.rec = r.rec, !.ev = r.ev, !.cut = r.cut,
                     !.att = <<snapshot>>,
                     !.top0 = AtCursor(history, historyIndex)]

Push(id, snapshot) ==
    pushSnapshot(history, historyIndex, skipPush, saveTimer, id, snapshot)

Room == historyIndex + 1 < room

\* the nodes of a set once the markup they belong to has been replaced
Stale(set) == {IF i > 0 THEN 0 - i ELSE i : i \in set}

\* The render that follows setBodyHTML(nb), setColorValues(nc) and
\* setPieValue(pv) in a handler that left the live document as d, the sync
\* ref as ls and the element selection as selNow: the "Sync bodyHTML to DOM"
\* layout effect, then the "Setup editable elements" layout effect, both
\* keyed on bodyHTML.
Render(nb, nc, d, ls, selNow, pv) ==
    /\ bodyHTML' = nb
    /\ colorValues' = nc
    /\ IF nb = bodyHTML
       THEN /\ dom' = d
            /\ lastSynced' = ls
            /\ selected' = selNow
            /\ pieValue' = pv
            /\ UNCHANGED <<effColors, pendingSetup, detached, multiSelected,
                           resizeTarget>>
       ELSE \E g \in Stamps :
            LET rewritten == ls # <<nb>>
                synced == IF rewritten THEN nb ELSE d
                ready == IF isEditMode THEN setupEditable(synced, g)
                         ELSE readOnly(synced)
            IN /\ dom' = ready
               /\ lastSynced' = <<nb>>
               /\ selected' = IF rewritten /\ selNow > 0
                              THEN (IF Wrapped(template) THEN -2 ELSE -1)
                              ELSE selNow
               /\ detached' = IF rewritten /\ selNow > 0 THEN <<d[selNow]>> ELSE detached
               /\ multiSelected' = IF rewritten THEN Stale(multiSelected)
                                   ELSE multiSelected
               /\ resizeTarget' = IF rewritten /\ resizeTarget > 0
                                  THEN 0 - resizeTarget ELSE resizeTarget
               /\ effColors' = nc
               /\ pendingSetup' = IF isEditMode THEN 2 ELSE 0
               /\ pieValue' = IF pv = -1 /\ isEditMode THEN detectPieChart(ready)
                              ELSE pv

\* restoreSnapshot without the timer that clears the flag
restoreSnapshot_noTimer(snapshot) ==
    /\ skipPush' = TRUE
    /\ tasks' = tasks
    /\ Render(snapshot.bodyHTML, snapshot.colors, dom, lastSynced, selected, pieValue)

\* restoreSnapshot
restoreSnapshot(snapshot) ==
    /\ skipPush' = TRUE
    /\ tasks' = Append(tasks, SkipTask)
    /\ Render(snapshot.bodyHTML, snapshot.colors, dom, lastSynced, selected, pieValue)

\* undo that restores the snapshot it leaves instead of the one it moves to
undo_restoresCurrent ==
    /\ historyIndex > 0
    /\ Len(tasks) < MaxTimers
    /\ historyIndex' = historyIndex - 1
    /\ restoreSnapshot(history[historyIndex + 1])
    /\ last' = [Op("undo") EXCEPT !.moved = TRUE, !.dom0 = dom,
                                  !.col0 = <<colorValues>>,
                                  !.top0 = AtCursor(history, historyIndex)]
    /\ UNCHANGED <<template, history, saveTimer, colorTimer, storeVars, copied, room, isEditMode, uiVars>>

undo ==
    /\ historyIndex > 0
    /\ Len(tasks) < MaxTimers
    /\ historyIndex' = historyIndex - 1
    /\ restoreSnapshot(history[historyIndex])
    /\ last' = [Op("undo") EXCEPT !.moved = TRUE, !.dom0 = dom,
                                  !.col0 = <<colorValues>>,
                                  !.top0 = AtCursor(history, historyIndex)]
    /\ UNCHANGED <<template, history, saveTimer, colorTimer, storeVars, copied, room, isEditMode, uiVars>>

\* undo with the cursor at index 0 (or an empty history) returns at once
undoAtStart ==
    /\ historyIndex <= 0
    /\ last' = Op("undo")
    /\ UNCHANGED <<template, histVars, skipPush, tasks, docVars, colorTimer,
                   storeVars, copied, room, isEditMode, uiVars>>

redo ==
    /\ historyIndex < Len(history) - 1
    /\ Len(tasks) < MaxTimers
    /\ historyIndex' = historyIndex + 1
    /\ restoreSnapshot(history[historyIndex + 2])
    /\ last' = [Op("redo") EXCEPT !.moved = TRUE, !.dom0 = dom,
                                  !.col0 = <<colorValues>>,
                                  !.top0 = AtCursor(history, historyIndex)]
    /\ UNCHANGED <<template, history, saveTimer, colorTimer, storeVars, copied, room, isEditMode, uiVars>>

\* redo with the cursor at the tail returns at once
redoAtTail ==
    /\ historyIndex >= Len(history) - 1
    /\ last' = Op("redo")
    /\ UNCHANGED <<template, histVars, skipPush, tasks, docVars, colorTimer,
                   storeVars, copied, room, isEditMode, uiVars>>

\* a timer set after n setTimeout(..., 0) callbacks waits for them; one of
\* them has now run
Waited(timer) ==
    IF timer = <<>> \/ timer[1].wait = 0 THEN timer
    ELSE << [timer[1] EXCEPT !.wait = timer[1].wait - 1] >>

\* the timer restoreSnapshot sets: skipPushRef.current = false
ClearSkip ==
    /\ tasks # <<>>
    /\ Head(tasks).k = "skip"
    /\ tasks' = Tail(tasks)
    /\ skipPush' = FALSE
    /\ colorTimer' = Waited(colorTimer)
    /\ last' = Op("clearSkip")
    /\ UNCHANGED <<template, histVars, docVars, storeVars, copied, room, isEditMode, uiVars>>

(* ------------------------------ text editing --------------------------- *)

\* commitFromDom, called from a handler that left the live document as d
\* and the element selection as selNow, with the colours its closure holds
commitFromDom(d, colors, selNow) ==
    LET nextBody == syncDemographicBars(d)
        r == Push(template, Snapshot(nextBody, colors))
    IN /\ history' = r.history
       /\ historyIndex' = r.historyIndex
       /\ saveTimer' = r.saveTimer
       /\ Render(nextBody, colorValues, nextBody, <<nextBody>>, selNow, pieValue)

CommitOp(name, d, colors) ==
    LET snap == Snapshot(syncDemographicBars(d), colors)
    IN PushOp(name, Push(template, snap), snap)

\* the setTimeout(() => commitFromDom(), 0) of a chart update, a section
\* toggle, Reset Colors or an image replacement
DeferredCommit ==
    /\ tasks # <<>>
    /\ Head(tasks).k = "commit"
    /\ Room
    /\ tasks' = Tail(tasks)
    /\ colorTimer' = Waited(colorTimer)
    /\ commitFromDom(dom, Head(tasks).colors, selected)
    /\ last' = CommitOp("deferredCommit", dom, Head(tasks).colors)
    /\ UNCHANGED <<template, skipPush, storeVars, copied, room, isEditMode, uiVars>>

\* a keystroke whose input listener commits the live document
TypeText_commits(i, t) ==
    /\ i \in 1..Len(dom)
    /\ dom[i].kind = "box" /\ dom[i].tx > 0 /\ dom[i].eid > 0
    /\ t # dom[i].tx
    /\ Room
    /\ commitFromDom([dom EXCEPT ![i].tx = t], effColors, selected)
    /\ last' = Op("type")
    /\ UNCHANGED <<template, skipPush, tasks, colorTimer, storeVars, copied, room, isEditMode, uiVars>>

\* a keystroke in the editable region of element i (no handler records it)
TypeText(i, t) ==
    /\ i \in 1..Len(dom)
    /\ dom[i].kind = "box" /\ dom[i].tx > 0 /\ dom[i].eid > 0
    /\ t # dom[i].tx
    /\ dom' = [dom EXCEPT ![i].tx = t]
    /\ last' = Op("type")
    /\ UNCHANGED <<template, histVars, skipPush, tasks, bodyHTML, colorValues,
                   lastSynced, multiSelected, resizeTarget, effColors, pendingSetup, selected, detached,
                   pieValue, colorTimer, storeVars, copied, room, isEditMode, uiVars>>

\* onInput: a keystroke in the value cell of grid row i leaves the text t
\* there; the listener of the setup effect then runs syncDemographicBars
onInput(i, t) ==
    /\ i \in 1..Len(dom)
    /\ dom[i].kind = "row" /\ dom[i].eid > 0
    /\ t # dom[i].tx
    /\ dom' = syncDemographicBars([dom EXCEPT ![i].tx = t])
    /\ last' = [Op("input") EXCEPT !.dom0 = [dom EXCEPT ![i].tx = t]]
    /\ UNCHANGED <<template, histVars, skipPush, tasks, bodyHTML, colorValues,
                   lastSynced, multiSelected, resizeTarget, effColors, pendingSetup, selected, detached,
                   pieValue, colorTimer, storeVars, copied, room, isEditMode, uiVars>>

\* onBlur of an editable region: the listener registered by the setup effect
onBlur ==
    /\ HasEditable(dom)
    /\ Room
    /\ commitFromDom(dom, effColors, selected)
    /\ last' = CommitOp("blur", dom, effColors)
    /\ UNCHANGED <<template, skipPush, tasks, colorTimer, storeVars, copied, room, isEditMode, uiVars>>

\* onFormat and onFontSizeStep on the region of element i: snapshot the live
\* document, then rewrite the selected content (f = the format it ends with;
\* a collapsed selection leaves the content as it is)
onFormat(i, f) ==
    /\ i \in 1..Len(dom)
    /\ dom[i].kind = "box" /\ dom[i].tx > 0 /\ dom[i].eid > 0
    /\ Room
    /\ LET snap == Snapshot(dom, colorValues)
           r == Push(template, snap)
       IN /\ history' = r.history
          /\ historyIndex' = r.historyIndex
          /\ saveTimer' = r.saveTimer
          /\ dom' = [dom EXCEPT ![i].fmt = f]
          /\ last' = [PushOp("format", r, snap) EXCEPT !.dom0 = dom,
                                                       !.flag = (f # dom[i].fmt)]
    /\ UNCHANGED <<template, skipPush, tasks, bodyHTML, colorValues, lastSynced, multiSelected, resizeTarget,
                   effColors, pendingSetup, selected, detached, pieValue,
                   colorTimer, storeVars, copied, room, isEditMode, uiVars>>

\* the Edit and Read buttons: setIsEditMode(b), then the setup effect and the
\* selection-change effect, both keyed on isEditMode
setIsEditMode(b) ==
    /\ isEditMode # b
    /\ isEditMode' = b
    /\ IF b
       THEN /\ \E g \in Stamps : dom' = setupEditable(dom, g)
            /\ pendingSetup' = 2
            /\ pieValue' = IF pieValue = -1 THEN detectPieChart(dom) ELSE pieValue
            /\ textToolbar' = textToolbar
       ELSE /\ dom' = readOnly(dom)
            /\ pendingSetup' = 0
            /\ pieValue' = pieValue
            /\ textToolbar' = FALSE
    /\ effColors' = colorValues
    /\ last' = Op("mode")
    /\ UNCHANGED <<template, histVars, skipPush, tasks, bodyHTML, colorValues,
                   lastSynced, multiSelected, resizeTarget, selected, detached,
                   colorTimer, storeVars, copied, room, marquee, floatingImages,
                   isBusy, exports, hasError, resizingRef>>

\* the requestAnimationFrame and 100 ms re-runs of setupEditable
SetupRetry ==
    /\ pendingSetup > 0
    /\ pendingSetup' = pendingSetup - 1
    /\ \E g \in Stamps : dom' = setupEditable(dom, g)
    /\ last' = Op("setup")
    /\ UNCHANGED <<template, histVars, skipPush, tasks, bodyHTML, colorValues,
                   lastSynced, multiSelected, resizeTarget, effColors, selected, detached, pieValue,
                   colorTimer, storeVars, copied, room, isEditMode, uiVars>>

(* -------------------------------- colours ------------------------------ *)

\* onColorInput without the clearTimeout of the pending debounce timer
onColorInput_noClear(v, x) ==
    /\ colorValues' = [colorValues EXCEPT ![v] = x]
    /\ colorTimer' = (IF Len(colorTimer) < MaxTimers THEN colorTimer ELSE <<>>)
                      \o << [id |-> template,
                             colors |-> [colorValues EXCEPT ![v] = x],
                             v |-> v, x |-> x, wait |-> Len(tasks)] >>
    /\ last' = Op("colorInput")
    /\ UNCHANGED <<template, histVars, skipPush, tasks, bodyHTML, dom, lastSynced, multiSelected, resizeTarget,
                   effColors, pendingSetup, selected, detached, pieValue,
                   storeVars, copied, room, isEditMode, uiVars>>

\* onColorInput: set the colour and (re)start the 350 ms debounce timer,
\* which runs after the setTimeout(..., 0) callbacks already pending
onColorInput(v, x) ==
    /\ colorValues' = [colorValues EXCEPT ![v] = x]
    /\ colorTimer' = << [id |-> template,
                         colors |-> [colorValues EXCEPT ![v] = x],
                         v |-> v, x |-> x, wait |-> Len(tasks)] >>
    /\ last' = Op("colorInput")
    /\ UNCHANGED <<template, histVars, skipPush, tasks, bodyHTML, dom, lastSynced, multiSelected, resizeTarget,
                   effColors, pendingSetup, selected, detached, pieValue,
                   storeVars, copied, room, isEditMode, uiVars>>

\* resetColors (the "Reset Colors" button): the deferred commitFromDom is the
\* one of the render in which the button was pressed
resetColors ==
    /\ Len(tasks) < MaxTimers
    /\ colorValues' = parseTemplateHtml(template).initialColors
    /\ tasks' = Append(tasks, CommitTask(colorValues))
    /\ last' = Op("resetColors")
    /\ UNCHANGED <<template, histVars, skipPush, bodyHTML, dom, lastSynced, multiSelected,
                   resizeTarget, effColors, pendingSetup, selected, detached, pieValue,
                   colorTimer, storeVars, copied, room, isEditMode, uiVars>>

\* the debounce timer fires: push the live markup with the colours of the input
ColorTimerFire ==
    /\ colorTimer # <<>>
    /\ colorTimer[1].wait = 0
    /\ Room
    /\ LET snap == Snapshot(dom, colorTimer[1].colors)
           r == Push(colorTimer[1].id, snap)
       IN /\ history' = r.history
          /\ historyIndex' = r.historyIndex
          /\ saveTimer' = r.saveTimer
          /\ last' = PushOp("colorTimer", r, snap)
    /\ colorTimer' = Tail(colorTimer)
    /\ UNCHANGED <<template, skipPush, tasks, docVars, storeVars, copied, room, isEditMode, uiVars>>

\* the auto-save timer fires: localStorage.setItem(SAVE_KEY(id), ...)
SaveTimerFire ==
    /\ saveTimer # <<>>
    /\ storage' = [storage EXCEPT ![saveTimer[1].id] = <<JSONstringify(saveTimer[1].snap)>>]
    /\ saveTimer' = <<>>
    /\ last' = Op("saveTimer")
    /\ UNCHANGED <<template, history, historyIndex, skipPush, tasks, docVars,
                   colorTimer, hasSavedState, copies, copied, room, isEditMode, uiVars>>

(* ------------------------- saved states and reset --------------------- *)

\* restoreSavedState (the Restore button of the saved-state banner)
restoreSavedState ==
    /\ hasSavedState
    /\ Room
    /\ IF storage[template] = <<>> \/ JSONparse(storage[template][1]) = <<>>
          \/ JSONparse(storage[template][1])[1] = JsonNull
       THEN \* "if (!raw) return", or JSON.parse or saved.bodyHTML throws
            /\ last' = [Op("restore") EXCEPT !.dom0 = dom, !.col0 = <<colorValues>>]
            /\ UNCHANGED <<histVars, docVars, hasSavedState, hasError>>
       ELSE LET saved == JSONparse(storage[template][1])[1]
                \* Object.keys(b.colors) in areSnapshotsEqual throws
                throws == /\ saved.colors = Undefined
                          /\ ~skipPush
                          /\ AtCursor(history, historyIndex) # <<>>
                          /\ history[historyIndex + 1].bodyHTML = saved.bodyHTML
                r == IF throws
                     THEN [history |-> history, historyIndex |-> historyIndex,
                           saveTimer |-> saveTimer, rec |-> FALSE, ev |-> FALSE,
                           cut |-> FALSE]
                     ELSE Push(template, saved)
            IN /\ history' = r.history
               /\ historyIndex' = r.historyIndex
               /\ saveTimer' = r.saveTimer
               /\ hasSavedState' = IF throws THEN hasSavedState ELSE FALSE
               /\ last' = [PushOp("restore", r, saved) EXCEPT
                               !.dom0 = dom, !.col0 = <<colorValues>>,
                               !.flag = throws,
                               !.toast = IF throws THEN ""
                                         ELSE "Previous edits restored"]
               /\ IF saved.colors = Undefined
                  THEN \* Object.entries(colorValues) throws in the next render
                       /\ bodyHTML' = saved.bodyHTML
                       /\ colorValues' = Undefined
                       /\ hasError' = TRUE
                       /\ UNCHANGED <<dom, lastSynced, effColors, pendingSetup,
                                      selected, detached, pieValue, multiSelected,
                                      resizeTarget>>
                  ELSE /\ Render(saved.bodyHTML, saved.colors, dom, lastSynced,
                                 selected, pieValue)
                       /\ UNCHANGED hasError
    /\ UNCHANGED <<template, skipPush, tasks, colorTimer, storage, copies,
                   copied, room, isEditMode, marquee, textToolbar, floatingImages, isBusy,
                   exports, resizingRef>>

\* another tab (or the user) replaces or removes the stored value
storageEvent(v) ==
    /\ storage[template] # v
    /\ storage' = [storage EXCEPT ![template] = v]
    /\ last' = Op("storage")
    /\ UNCHANGED <<template, histVars, skipPush, tasks, docVars, colorTimer,
                   hasSavedState, copies, copied, room, isEditMode, uiVars>>

\* clearSavedState (the Dismiss button of the saved-state banner)
clearSavedState ==
    /\ hasSavedState
    /\ storage' = [storage EXCEPT ![template] = <<>>]
    /\ hasSavedState' = FALSE
    /\ last' = Op("dismiss")
    /\ UNCHANGED <<template, histVars, skipPush, tasks, docVars, colorTimer, copies,
                   copied, room, isEditMode, uiVars>>

\* resetToOriginal, with the clearSavedState it calls
resetToOriginal ==
    /\ Room
    /\ LET parsed == parseTemplateHtml(template)
           initial == Snapshot(parsed.bodyHTML, parsed.initialColors)
           r == Push(template, initial)
       IN /\ history' = r.history
          /\ historyIndex' = r.historyIndex
          /\ saveTimer' = r.saveTimer
          /\ Render(parsed.bodyHTML, parsed.initialColors, dom, lastSynced, selected,
                    pieValue)
          /\ last' = [PushOp("reset", r, initial) EXCEPT !.toast = "Reset to original"]
    /\ storage' = [storage EXCEPT ![template] = <<>>]
    /\ hasSavedState' = FALSE
    /\ UNCHANGED <<template, skipPush, tasks, colorTimer, copies, copied, room, isEditMode, uiVars>>

\* loadCopy of one of the copies stored for this template
loadCopy(saved) ==
    /\ saved \in copies[template]
    /\ Room
    /\ LET snap == Snapshot(saved.bodyHTML, saved.colors)
           r == Push(template, snap)
       IN /\ history' = r.history
          /\ historyIndex' = r.historyIndex
          /\ saveTimer' = r.saveTimer
          /\ Render(saved.bodyHTML, saved.colors, dom, lastSynced, selected, pieValue)
          /\ last' = [PushOp("load", r, snap) EXCEPT !.toast = "Copy loaded"]
    /\ UNCHANGED <<template, skipPush, tasks, colorTimer, storeVars, copied, room, isEditMode, uiVars>>

\* the template prop changes: "Init state on template change" and the
\* saved-state check, then the render of the new body
TemplateChange(id) ==
    /\ id # template
    /\ template' = id
    /\ LET parsed == parseTemplateHtml(id)
           initial == Snapshot(parsed.bodyHTML, parsed.initialColors)
           r == pushSnapshot(<<>>, -1, skipPush, saveTimer, id, initial)
       IN /\ history' = r.history
          /\ historyIndex' = r.historyIndex
          /\ saveTimer' = r.saveTimer
          /\ Render(parsed.bodyHTML, parsed.initialColors, dom, <<>>, selected, -1)
          /\ last' = [Op("template") EXCEPT !.rec = r.rec]
    /\ hasSavedState' = (storage[id] # <<>>)
    /\ UNCHANGED <<skipPush, tasks, colorTimer, storage, copies, copied, room, isEditMode, uiVars>>

(* --------------------------- element clipboard ------------------------- *)

Unmarked(e) == [e EXCEPT !.sel = FALSE]

RemoveAt(d, i) == [j \in 1..(Len(d) - 1) |-> IF j < i THEN d[j] ELSE d[j + 1]]

InsertAfter(d, i, e) ==
    [j \in 1..(Len(d) + 1) |-> IF j <= i THEN d[j]
                               ELSE IF j = i + 1 THEN e ELSE d[j - 1]]

\* onBodyPointerDown with ctrl/cmd on element i, outside its editable text
selectElement(i) ==
    /\ isEditMode
    /\ i \in 1..Len(dom)
    /\ dom' = [j \in 1..Len(dom) |->
                   IF j = i THEN [dom[j] EXCEPT !.sel = TRUE]
                   ELSE IF j = selected THEN Unmarked(dom[j]) ELSE dom[j]]
    /\ selected' = i
    /\ detached' = <<>>
    /\ last' = Op("select")
    /\ UNCHANGED <<template, histVars, skipPush, tasks, bodyHTML, colorValues,
                   lastSynced, multiSelected, resizeTarget, effColors, pendingSetup, pieValue, colorTimer,
                   storeVars, copied, room, isEditMode, uiVars>>

\* clearElementSelection (Escape, or the toolbar's clear button)
clearElementSelection ==
    /\ isEditMode
    /\ selected # 0
    /\ dom' = [j \in 1..Len(dom) |-> IF j = selected THEN Unmarked(dom[j]) ELSE dom[j]]
    /\ selected' = 0
    /\ detached' = <<>>
    /\ last' = Op("clearSelection")
    /\ UNCHANGED <<template, histVars, skipPush, tasks, bodyHTML, colorValues,
                   lastSynced, multiSelected, resizeTarget, effColors, pendingSetup, pieValue, colorTimer,
                   storeVars, copied, room, isEditMode, uiVars>>

\* copySelectedElement: the outerHTML of the selected node, attached or not
copySelectedElement ==
    /\ isEditMode
    /\ selected # 0
    /\ copied' = IF selected > 0 THEN <<dom[selected]>> ELSE detached
    /\ last' = Op("copy")
    /\ UNCHANGED <<template, histVars, skipPush, tasks, docVars, colorTimer,
                   storeVars, room, isEditMode, uiVars>>

\* deleteSelectedElement on a node that is still in the document
deleteSelectedElement ==
    /\ isEditMode
    /\ selected > 0
    /\ Room
    /\ commitFromDom(RemoveAt(dom, selected), colorValues, 0)
    /\ last' = [CommitOp("delete", RemoveAt(dom, selected), colorValues)
                    EXCEPT !.flag = (copied = <<dom[selected]>>), !.dom0 = dom]
    /\ UNCHANGED <<template, skipPush, tasks, colorTimer, storeVars, copied, room, isEditMode, uiVars>>

\* where pasteElement puts the clone: after the selected node (for a
\* detached node that still has a parent this is outside the live document),
\* or at the end of the body when nothing is selected or the selected node
\* has no parent
Pasted(d, sel, html) ==
    IF sel > 0 THEN InsertAfter(d, sel, Unmarked(html))
    ELSE IF sel = -2 THEN d
    ELSE Append(d, Unmarked(html))

pasteElement ==
    /\ isEditMode
    /\ copied # <<>>
    /\ Len(dom) < MaxElems
    /\ Room
    /\ commitFromDom(Pasted(dom, selected, copied[1]), colorValues, selected)
    /\ last' = CommitOp("paste", Pasted(dom, selected, copied[1]), colorValues)
    /\ UNCHANGED <<template, skipPush, tasks, colorTimer, storeVars, copied, room, isEditMode, uiVars>>

(* ------------------------- multi-selection, marquee -------------------- *)

\* el.getBoundingClientRect() of the i-th element: the elements are laid
\* out one below the other, one unit high and one unit wide, one unit apart
\* where the style sheet of template id lays out element i
Layout(id, i) ==
    IF id = 11 THEN [left |-> 100, right |-> 160, top |-> 100 * i, bottom |-> 100 * i + 30]
    ELSE [left |-> 1, right |-> 2, top |-> 2 * i - 1, bottom |-> 2 * i]

\* getBoundingClientRect of element i of document d: its layout box, or the
\* box its inline width, height and translation give it
ClientRect(d, i) ==
    LET box == Layout(template, i)
        st == d[i].style
    IN IF st = <<>> THEN box
       ELSE [left |-> box.left + st[1].tx, right |-> box.left + st[1].tx + st[1].width,
             top |-> box.top + st[1].ty, bottom |-> box.top + st[1].ty + st[1].height]

BoundingRect(i) == ClientRect(dom, i)

Min(a, b) == IF a < b THEN a ELSE b
Max(a, b) == IF a > b THEN a ELSE b

\* querySelectorAll("[data-editable='true']")
Editables(d) == {i \in 1..Len(d) : d[i].eid > 0}

\* the hit test of onUp with every comparison of the horizontal axis dropped
hitTest_verticalOnly(r, left, right, top, bottom) ==
    ~(r.bottom < top \/ r.top > bottom)

\* the hit test of onUp
hitTest(r, left, right, top, bottom) ==
    ~(r.right < left \/ r.left > right \/ r.bottom < top \/ r.top > bottom)

\* onBodyPointerDown with ctrl/cmd on the editable region of element i:
\* hit[0] for the regions a marquee hit, which querySelectorAll lists in
\* document order (0: no hit)
First(hit) == IF hit = {} THEN 0 ELSE CHOOSE i \in hit : \A j \in hit : i <= j

\* toggle its membership in the multi-selection
toggleMultiSelect(i) ==
    /\ isEditMode
    /\ i \in Editables(dom)
    /\ LET set == IF i \in multiSelected THEN multiSelected \ {i}
                  ELSE multiSelected \cup {i}
       IN /\ multiSelected' = set
          /\ textToolbar' = (set # {})
          \* Array.from(set)[0] is the member that was added first; the
          \* model of the set keeps no order, so it can be any member
          /\ IF set = {} THEN resizeTarget' = 0
             ELSE \E first \in set : resizeTarget' = first
    /\ last' = Op("toggleMulti")
    /\ UNCHANGED <<template, histVars, skipPush, tasks, bodyHTML, colorValues, dom,
                   lastSynced, effColors, pendingSetup, selected, detached,
                   pieValue, colorTimer, storeVars, copied, marquee,
                   floatingImages, isBusy, exports, hasError, resizingRef, room, isEditMode>>

\* onFormat with one of the execCommand commands (alignment, colour, bold,
\* italic, underline, strike-through) ending in format f, while the document
\* selection is in region p (0: no selection). With more than one region in
\* the multi-selection the selection is first moved to the content of the
\* first member, if that node is still in the document; execCommand then
\* formats the selection. The set keeps no order in the model: first is any
\* member.
onFormatMulti(p, f) ==
    /\ isEditMode
    /\ p \in Editables(dom) \cup {0}
    /\ Room
    /\ \E first \in (IF Cardinality(multiSelected) > 1 THEN multiSelected ELSE {0}) :
         LET t == IF first > 0 THEN first ELSE p
             after == IF t > 0 THEN [dom EXCEPT ![t].fmt = f] ELSE dom
             snap == Snapshot(dom, colorValues)
             r == Push(template, snap)
         IN /\ history' = r.history
            /\ historyIndex' = r.historyIndex
            /\ saveTimer' = r.saveTimer
            /\ dom' = after
            /\ last' = [PushOp("formatMulti", r, snap) EXCEPT !.dom0 = dom,
                                                              !.flag = (after # dom)]
    /\ UNCHANGED <<template, skipPush, tasks, bodyHTML, colorValues, lastSynced, multiSelected, resizeTarget,
                   effColors, pendingSetup, selected, detached, pieValue,
                   colorTimer, storeVars, copied, room, isEditMode, uiVars>>

\* onMarqueeMouseDown at (x, y), a point outside every editable region
onMarqueeMouseDown(x, y) ==
    /\ isEditMode
    /\ \A i \in Editables(dom) :
           ~(/\ BoundingRect(i).left <= x /\ x <= BoundingRect(i).right
             /\ BoundingRect(i).top <= y /\ y <= BoundingRect(i).bottom)
    /\ marquee' = << [startX |-> x, startY |-> y, endX |-> x, endY |-> y] >>
    /\ last' = Op("marqueeDown")
    /\ UNCHANGED <<template, histVars, skipPush, tasks, docVars, colorTimer,
                   storeVars, copied, textToolbar, floatingImages, isBusy,
                   exports, hasError, resizingRef, room, isEditMode>>

\* onMove: the pointer moves to (x, y) during a marquee drag
onMove(x, y) ==
    /\ marquee # <<>>
    /\ marquee' = << [marquee[1] EXCEPT !.endX = x, !.endY = y] >>
    /\ last' = Op("marqueeMove")
    /\ UNCHANGED <<template, histVars, skipPush, tasks, docVars, colorTimer,
                   storeVars, copied, textToolbar, floatingImages, isBusy,
                   exports, hasError, resizingRef, room, isEditMode>>

\* onUp: the release of a marquee drag
onUp ==
    /\ marquee # <<>>
    /\ LET rect == marquee[1]
           left == Min(rect.startX, rect.endX)
           right == Max(rect.startX, rect.endX)
           top == Min(rect.startY, rect.endY)
           bottom == Max(rect.startY, rect.endY)
           hit == {i \in Editables(dom) :
                      hitTest(BoundingRect(i), left, right, top, bottom)}
       IN /\ multiSelected' = hit
          /\ textToolbar' = (hit # {})
          /\ resizeTarget' = First(hit)
          /\ last' = [Op("marqueeUp") EXCEPT !.flag = (multiSelected # {})]
    /\ marquee' = <<>>
    /\ UNCHANGED <<template, histVars, skipPush, tasks, bodyHTML, colorValues, dom,
                   lastSynced, effColors, pendingSetup, selected, detached,
                   pieValue, colorTimer, storeVars, copied, floatingImages,
                   isBusy, exports, hasError, resizingRef, room, isEditMode>>

(* ----------------------------- resize handles -------------------------- *)

\* HANDLE_POSITIONS: the handle ids with x and y in halves of the width and
\* height of the outline
HANDLE_POSITIONS ==
    {[id |-> "nw", x |-> 0, y |-> 0], [id |-> "n", x |-> 1, y |-> 0],
     [id |-> "ne", x |-> 2, y |-> 0], [id |-> "e", x |-> 2, y |-> 1],
     [id |-> "se", x |-> 2, y |-> 2], [id |-> "s", x |-> 1, y |-> 2],
     [id |-> "sw", x |-> 0, y |-> 2], [id |-> "w", x |-> 0, y |-> 1]}

\* what the resize handles leave alone until the release commits
resizeRest == <<template, histVars, skipPush, tasks, bodyHTML, colorValues, lastSynced,
                effColors, pendingSetup, selected, detached, pieValue, multiSelected,
                resizeTarget, colorTimer, storeVars, copied, marquee, textToolbar,
                floatingImages, isBusy, exports, hasError, room, isEditMode>>

\* onHandlePointerDown on handle pos of the outline around the resize
\* target, which is rendered only while the target is attached
onHandlePointerDown(pos) ==
    /\ isEditMode
    /\ resizeTarget > 0
    /\ LET r == BoundingRect(resizeTarget) IN
       resizingRef' =
           << [handle |-> pos.id,
               startX |-> r.left + (pos.x * (r.right - r.left)) \div 2,
               startY |-> r.top + (pos.y * (r.bottom - r.top)) \div 2,
               startW |-> r.right - r.left, startH |-> r.bottom - r.top,
               startLeft |-> r.left, startTop |-> r.top] >>
    /\ last' = Op("handleDown")
    /\ UNCHANGED <<dom, resizeRest>>

\* runResize with a commit of the resized document at every pointer move
runResize_commits(clientX, clientY) ==
    /\ resizingRef # <<>>
    /\ resizeTarget > 0
    /\ Room
    /\ LET r == resizingRef[1]
           dx == clientX - r.startX
           dy == clientY - r.startY
           hh == r.handle
           w == IF hh \in {"e", "ne", "se"} THEN Max(20, r.startW + dx)
                ELSE IF hh \in {"w", "nw", "sw"} THEN Max(20, r.startW - dx)
                ELSE r.startW
           tx == IF hh \in {"w", "nw", "sw"} THEN dx ELSE 0
           h == IF hh \in {"s", "se", "sw"} THEN Max(14, r.startH + dy)
                ELSE IF hh \in {"n", "nw", "ne"} THEN Max(14, r.startH - dy)
                ELSE r.startH
           ty == IF hh \in {"n", "nw", "ne"} THEN dy ELSE 0
           resized == [dom EXCEPT ![resizeTarget].style =
                           << [width |-> w, height |-> h, tx |-> tx, ty |-> ty] >>]
       IN /\ commitFromDom(resized, colorValues, selected)
          /\ last' = CommitOp("runResize", resized, colorValues)
    /\ UNCHANGED <<template, skipPush, tasks, colorTimer, storeVars, copied, marquee,
                   textToolbar, floatingImages, isBusy, exports, hasError,
                   resizingRef, room, isEditMode>>

\* runResize(clientX, clientY), called by the pointermove listener
runResize(clientX, clientY) ==
    /\ resizingRef # <<>>
    /\ resizeTarget > 0
    /\ LET r == resizingRef[1]
           dx == clientX - r.startX
           dy == clientY - r.startY
           hh == r.handle
           w == IF hh \in {"e", "ne", "se"} THEN Max(20, r.startW + dx)
                ELSE IF hh \in {"w", "nw", "sw"} THEN Max(20, r.startW - dx)
                ELSE r.startW
           tx == IF hh \in {"w", "nw", "sw"} THEN dx ELSE 0
           h == IF hh \in {"s", "se", "sw"} THEN Max(14, r.startH + dy)
                ELSE IF hh \in {"n", "nw", "ne"} THEN Max(14, r.startH - dy)
                ELSE r.startH
           ty == IF hh \in {"n", "nw", "ne"} THEN dy ELSE 0
       IN dom' = [dom EXCEPT ![resizeTarget].style =
                      << [width |-> w, height |-> h, tx |-> tx, ty |-> ty] >>]
    /\ last' = Op("runResize")
    /\ UNCHANGED <<resizingRef, resizeRest>>

\* the pointerup listener of a handle drag: onCommit is commitFromDom
onHandlePointerUp ==
    /\ resizingRef # <<>>
    /\ Room
    /\ resizingRef' = <<>>
    /\ commitFromDom(dom, colorValues, selected)
    /\ last' = CommitOp("handleUp", dom, colorValues)
    /\ UNCHANGED <<template, skipPush, tasks, colorTimer, storeVars, copied, marquee,
                   textToolbar, floatingImages, isBusy, exports, hasError, room, isEditMode>>

(* ---------------------------- floating images -------------------------- *)

\* what the floating-image handlers leave alone
floatRest == <<template, histVars, skipPush, tasks, docVars, colorTimer, storeVars,
               copied, marquee, textToolbar, isBusy, exports, hasError, resizingRef, room, isEditMode>>

\* natural width and height of the files a user picks
NaturalSizes == {<<600, 300>>}

\* pointer travel (clientX - startX) / zoom, (clientY - startY) / zoom of one
\* pointer move
Deltas == {<<30, 0>>}

RECURSIVE GCD(_, _)
GCD(a, b) == IF b = 0 THEN a ELSE GCD(b, a % b)

\* the number n / d of a width or a height, as <<numerator, denominator>> in
\* lowest terms (d > 0)
Q(n, d) == << n \div GCD(n, d), d \div GCD(n, d) >>

\* n * Math.min(maxDim / nw, maxDim / nh, 1) with maxDim = 300
Scaled(n, nw, nh) ==
    IF Max(nw, nh) <= 300 THEN Q(n, 1) ELSE Q(n * 300, Max(nw, nh))

\* the FloatingImage built in imgEl.onload, with the two gesture refs of the
\* overlay that renders it
newImg(now, nw, nh) ==
    [id |-> now, x |-> 50, y |-> 50,
     width |-> Scaled(nw, nw, nh), height |-> Scaled(nh, nw, nh),
     rotation |-> 0, naturalWidth |-> nw, naturalHeight |-> nh,
     aspectMode |-> "freeform", dragRef |-> <<>>, resizeRef |-> <<>>]

\* { ...img, ...patch }
Patched(img, patch) ==
    [f \in DOMAIN img |-> IF f \in DOMAIN patch THEN patch[f] ELSE img[f]]

updateFloatingImage(imgs, id, patch) ==
    [j \in 1..Len(imgs) |-> IF imgs[j].id = id THEN Patched(imgs[j], patch)
                            ELSE imgs[j]]

deleteFloatingImage(imgs, id) == SelectSeq(imgs, LAMBDA img : img.id # id)

\* getAspectRatio as <<numerator, denominator>> (<<>>: freeform)
getAspectRatio(img) ==
    CASE img.aspectMode = "freeform" -> <<>>
      [] img.aspectMode = "1:1" -> <<1, 1>>
      [] img.aspectMode = "4:3" -> <<4, 3>>
      [] img.aspectMode = "16:9" -> <<16, 9>>
      [] OTHER -> <<img.naturalWidth, img.naturalHeight>>

Abs(n) == IF n < 0 THEN 0 - n ELSE n

\* addFloatingImage once the picked file has loaded at time now
addFloatingImage(now, nw, nh) ==
    /\ isEditMode
    /\ Len(floatingImages) < MaxImages
    /\ floatingImages' = Append(floatingImages, newImg(now, nw, nh))
    /\ last' = Op("addImage")
    /\ UNCHANGED floatRest

\* onPointerDownMove on the overlay of image k
onPointerDownMove(k) ==
    /\ isEditMode
    /\ k \in 1..Len(floatingImages)
    /\ floatingImages' =
           [floatingImages EXCEPT ![k].dragRef =
                << [origX |-> floatingImages[k].x, origY |-> floatingImages[k].y] >>]
    /\ last' = Op("imageDown")
    /\ UNCHANGED floatRest

\* onPointerDownResize on the overlay of image k
onPointerDownResize(k) ==
    /\ isEditMode
    /\ k \in 1..Len(floatingImages)
    /\ floatingImages' =
           [floatingImages EXCEPT ![k].resizeRef =
                << [origW |-> floatingImages[k].width,
                    origH |-> floatingImages[k].height] >>]
    /\ last' = Op("imageDown")
    /\ UNCHANGED floatRest

\* onPointerMoveHandler with the following axis floored at 20 as well
onPointerMoveHandler_floorsBoth(k, dx, dy) ==
    /\ k \in 1..Len(floatingImages)
    /\ LET img == floatingImages[k]
           moved == IF img.dragRef = <<>> THEN floatingImages
                    ELSE updateFloatingImage(floatingImages, img.id,
                             [x |-> img.dragRef[1].origX + dx,
                              y |-> img.dragRef[1].origY + dy])
           ratio == getAspectRatio(img)
           origW == img.resizeRef[1].origW
           origH == img.resizeRef[1].origH
           w0 == IF origW[1] + dx * origW[2] < 20 * origW[2] THEN Q(20, 1)
                 ELSE Q(origW[1] + dx * origW[2], origW[2])
           h0 == IF origH[1] + dy * origH[2] < 20 * origH[2] THEN Q(20, 1)
                 ELSE Q(origH[1] + dy * origH[2], origH[2])
           newW == IF ratio # <<>> /\ Abs(dx) < Abs(dy)
                   THEN (IF h0[1] * ratio[1] < 20 * h0[2] * ratio[2] THEN Q(20, 1)
                         ELSE Q(h0[1] * ratio[1], h0[2] * ratio[2]))
                   ELSE w0
           newH == IF ratio # <<>> /\ Abs(dx) >= Abs(dy)
                   THEN (IF w0[1] * ratio[2] < 20 * w0[2] * ratio[1] THEN Q(20, 1)
                         ELSE Q(w0[1] * ratio[2], w0[2] * ratio[1]))
                   ELSE h0
           sized == IF img.resizeRef = <<>> THEN moved
                    ELSE updateFloatingImage(moved, img.id,
                             [width |-> newW, height |-> newH])
       IN /\ img.dragRef # <<>> \/ img.resizeRef # <<>>
          /\ \A j \in 1..Len(sized) :
                 /\ Abs(sized[j].x) <= MaxCoord /\ Abs(sized[j].y) <= MaxCoord
                 /\ sized[j].width[1] <= MaxSize * sized[j].width[2]
                 /\ sized[j].height[1] <= MaxSize * sized[j].height[2]
                 /\ sized[j].width[2] <= MaxDen /\ sized[j].height[2] <= MaxDen
          /\ floatingImages' = sized
          /\ last' = [Op("imageMove") EXCEPT !.flag = (img.resizeRef # <<>>),
                                              !.p = k,
                                              !.att = <<dx, dy>>]
    /\ UNCHANGED floatRest

\* onPointerMoveHandler on the overlay of image k, the pointer dx, dy away
\* from where the gesture started
onPointerMoveHandler(k, dx, dy) ==
    /\ k \in 1..Len(floatingImages)
    /\ LET img == floatingImages[k]
           moved == IF img.dragRef = <<>> THEN floatingImages
                    ELSE updateFloatingImage(floatingImages, img.id,
                             [x |-> img.dragRef[1].origX + dx,
                              y |-> img.dragRef[1].origY + dy])
           ratio == getAspectRatio(img)
           origW == img.resizeRef[1].origW
           origH == img.resizeRef[1].origH
           w0 == IF origW[1] + dx * origW[2] < 20 * origW[2] THEN Q(20, 1)
                 ELSE Q(origW[1] + dx * origW[2], origW[2])
           h0 == IF origH[1] + dy * origH[2] < 20 * origH[2] THEN Q(20, 1)
                 ELSE Q(origH[1] + dy * origH[2], origH[2])
           newW == IF ratio # <<>> /\ Abs(dx) < Abs(dy)
                   THEN Q(h0[1] * ratio[1], h0[2] * ratio[2]) ELSE w0
           newH == IF ratio # <<>> /\ Abs(dx) >= Abs(dy)
                   THEN Q(w0[1] * ratio[2], w0[2] * ratio[1]) ELSE h0
           sized == IF img.resizeRef = <<>> THEN moved
                    ELSE updateFloatingImage(moved, img.id,
                             [width |-> newW, height |-> newH])
       IN /\ img.dragRef # <<>> \/ img.resizeRef # <<>>
          /\ \A j \in 1..Len(sized) :
                 /\ Abs(sized[j].x) <= MaxCoord /\ Abs(sized[j].y) <= MaxCoord
                 /\ sized[j].width[1] <= MaxSize * sized[j].width[2]
                 /\ sized[j].height[1] <= MaxSize * sized[j].height[2]
                 /\ sized[j].width[2] <= MaxDen /\ sized[j].height[2] <= MaxDen
          /\ floatingImages' = sized
          /\ last' = [Op("imageMove") EXCEPT !.flag = (img.resizeRef # <<>>),
                                              !.p = k,
                                              !.att = <<dx, dy>>]
    /\ UNCHANGED floatRest

\* onPointerUp on the overlay of image k
onPointerUp(k) ==
    /\ k \in 1..Len(floatingImages)
    /\ floatingImages' =
           [floatingImages EXCEPT ![k].dragRef = <<>>, ![k].resizeRef = <<>>]
    /\ last' = Op("imageUp")
    /\ UNCHANGED floatRest

\* the "Aspect ratio" select of the overlay of image k
onAspectChange(k, mode) ==
    /\ isEditMode
    /\ k \in 1..Len(floatingImages)
    /\ floatingImages' =
           updateFloatingImage(floatingImages, floatingImages[k].id,
               [aspectMode |-> mode])
    /\ last' = Op("aspectImage")
    /\ UNCHANGED floatRest

\* the "Rotate 90" button of the overlay of image k
onRotate(k) ==
    /\ isEditMode
    /\ k \in 1..Len(floatingImages)
    /\ floatingImages' =
           updateFloatingImage(floatingImages, floatingImages[k].id,
               [rotation |-> (floatingImages[k].rotation + 90) % 360])
    /\ last' = Op("rotateImage")
    /\ UNCHANGED floatRest

\* the delete button with a commit of the document added to it
onDelete_commits(k) ==
    /\ isEditMode
    /\ k \in 1..Len(floatingImages)
    /\ Room
    /\ floatingImages' = deleteFloatingImage(floatingImages, floatingImages[k].id)
    /\ LET snap == Snapshot(<<>>, colorValues)
           r == Push(template, snap)
       IN /\ history' = r.history
          /\ historyIndex' = r.historyIndex
          /\ saveTimer' = r.saveTimer
    /\ last' = Op("deleteImage")
    /\ UNCHANGED <<template, skipPush, tasks, docVars, colorTimer, storeVars,
                   copied, marquee, textToolbar, isBusy, exports, hasError, resizingRef, room, isEditMode>>

\* the delete button of the overlay of image k
onDelete(k) ==
    /\ isEditMode
    /\ k \in 1..Len(floatingImages)
    /\ floatingImages' = deleteFloatingImage(floatingImages, floatingImages[k].id)
    /\ last' = Op("deleteImage")
    /\ UNCHANGED floatRest

(* -------------------------------- export ------------------------------- *)

ExportTypes == {"png", "jpg", "pdf", "clipboard"}

\* what the export steps leave alone
exportRest == <<template, histVars, skipPush, tasks, docVars, colorTimer, storeVars,
                copied, marquee, textToolbar, floatingImages, hasError, resizingRef, room, isEditMode>>

\* exportClipboard: how its promise settles when the capture, the encoding
\* to a blob and the clipboard write succeed or fail
exportClipboard(capture, blob, write) ==
    IF ~capture THEN "rejected"
    ELSE IF ~blob THEN "false"
    ELSE IF write THEN "true" ELSE "false"

\* the record of a step that ends export operation e
Ended(name, e, result, rejects, toast) ==
    [Op(name) EXCEPT !.type = e.type, !.result = result, !.flag = rejects,
                     !.toast = toast]

\* onExport(type), up to its first await; the four buttons are disabled
\* while isBusy. phase is what the operation waits for, awaited whether
\* onExport still awaits the export function.
onExport(type) ==
    /\ ~isBusy
    /\ Len(exports) < MaxExports
    /\ isBusy' = TRUE
    /\ exports' = Append(exports, [type |-> type, phase |-> "capture", awaited |-> TRUE])
    /\ last' = [Op("export") EXCEPT !.type = type]
    /\ UNCHANGED exportRest

\* captureToCanvas of operation k settles. A rejection leaves the export
\* function and, through the finally block, onExport. After a capture
\* exportPng and exportJpg call canvas.toBlob and return, exportPdf awaits
\* the jspdf import, exportClipboard awaits the blob.
captureToCanvas(k, ok) ==
    /\ k \in 1..Len(exports)
    /\ exports[k].phase = "capture"
    /\ LET e == exports[k] IN
       IF ~ok
       THEN /\ exports' = RemoveAt(exports, k)
            /\ isBusy' = FALSE
            /\ last' = Ended("exportFailed", e,
                             IF e.type = "clipboard"
                             THEN exportClipboard(FALSE, FALSE, FALSE)
                             ELSE "rejected", TRUE, "")
       ELSE IF e.type \in {"png", "jpg"}
       THEN /\ exports' = [exports EXCEPT ![k].phase = "blob", ![k].awaited = FALSE]
            /\ isBusy' = FALSE
            /\ last' = [Op("exportStep") EXCEPT !.type = e.type, !.result = "resolved"]
       ELSE /\ exports' = [exports EXCEPT ![k].phase =
                               IF e.type = "pdf" THEN "jspdf" ELSE "blob"]
            /\ UNCHANGED isBusy
            /\ last' = [Op("exportStep") EXCEPT !.type = e.type]
    /\ UNCHANGED exportRest

\* the import of jspdf settles for pdf operation k; pdf.save follows at once
importJsPdf(k, ok) ==
    /\ k \in 1..Len(exports)
    /\ exports[k].phase = "jspdf"
    /\ exports' = RemoveAt(exports, k)
    /\ isBusy' = FALSE
    /\ last' = IF ok THEN Ended("exportDone", exports[k], "resolved", FALSE, "")
               ELSE Ended("exportFailed", exports[k], "rejected", TRUE, "")
    /\ UNCHANGED exportRest

\* the callback of canvas.toBlob runs for operation k, with a blob or null
toBlob(k, blob) ==
    /\ k \in 1..Len(exports)
    /\ exports[k].phase = "blob"
    /\ LET e == exports[k] IN
       IF e.type # "clipboard"
       THEN \* blob && downloadBlob(blob, filename)
            /\ exports' = RemoveAt(exports, k)
            /\ UNCHANGED isBusy
            /\ last' = Ended(IF blob THEN "exportDone" ELSE "exportFailed", e,
                             "resolved", FALSE, "")
       ELSE IF ~blob
       THEN /\ exports' = RemoveAt(exports, k)
            /\ isBusy' = FALSE
            /\ last' = Ended("exportFailed", e, exportClipboard(TRUE, FALSE, FALSE),
                             FALSE, "Clipboard copy failed")
       ELSE /\ exports' = [exports EXCEPT ![k].phase = "write"]
            /\ UNCHANGED isBusy
            /\ last' = [Op("exportStep") EXCEPT !.type = e.type]
    /\ UNCHANGED exportRest

\* navigator.clipboard.write settles for clipboard operation k
clipboardWrite(k, ok) ==
    /\ k \in 1..Len(exports)
    /\ exports[k].phase = "write"
    /\ exports' = RemoveAt(exports, k)
    /\ isBusy' = FALSE
    /\ last' = Ended(IF ok THEN "exportDone" ELSE "exportFailed", exports[k],
                     exportClipboard(TRUE, TRUE, ok), FALSE,
                     IF ok THEN "Copied to clipboard!" ELSE "Clipboard copy failed")
    /\ UNCHANGED exportRest

(* ------------------------------ font size ----------------------------- *)

\* getFontSizeFromRange for the range selectNodeContents(e): the size of the
\* first child when that is an element, else of the region itself
getFontSizeFromRange(e) == IF e.lb # <<>> THEN e.lb[1] ELSE e.d1

\* the size the text of region e is rendered in: that of the innermost span
EffectiveSize(e) == IF e.lb # <<>> THEN e.lb[Len(e.lb)] ELSE e.d1

\* applyFormatToRange(range, "fontSize", next) for the whole content of e:
\* the content moves into a new span of the size next
applyFormatToRange(e, next) == [e EXCEPT !.lb = <<next>> \o e.lb]

\* onFontSizeStep(delta) with the regions of the multi-selection (the first
\* of them through the saved toolbar range, which holds its whole content)
onFontSizeStep(delta) ==
    /\ isEditMode
    /\ textToolbar
    /\ Room
    /\ \A i \in multiSelected : i > 0 => Len(dom[i].lb) < MaxNest
    /\ LET snap == Snapshot(dom, colorValues)
           r == Push(template, snap)
       IN /\ history' = r.history
          /\ historyIndex' = r.historyIndex
          /\ saveTimer' = r.saveTimer
          /\ last' = [PushOp("fontStep", r, snap) EXCEPT !.dom0 = dom, !.p = delta]
    /\ dom' = [i \in 1..Len(dom) |->
                  IF i \in multiSelected
                  THEN LET current == getFontSizeFromRange(dom[i])
                           next == Min(FONT_SIZE_MAX,
                                       Max(FONT_SIZE_MIN, current + delta))
                       IN applyFormatToRange(dom[i], next)
                  ELSE dom[i]]
    /\ multiSelected' = {i \in multiSelected : i > 0}
    /\ UNCHANGED <<template, skipPush, tasks, bodyHTML, colorValues, lastSynced,
                   resizeTarget, effColors, pendingSetup, selected, detached, pieValue,
                   colorTimer, storeVars, copied, room, isEditMode, uiVars>>

(* -------------------------------- charts ------------------------------- *)

\* the labels updatePieChart rewrites next to a chart
Labels(lb, val) ==
    [j \in 1..Len(lb) |-> IF j <= 2 THEN val ELSE IF j = 3 THEN 100 - val ELSE lb[j]]

\* the loop of updatePieChart over the detected charts of document d
setPieArcs(d, val) ==
    [i \in 1..Len(d) |->
        IF i \in detectAllPieCharts(d)
        THEN [d[i] EXCEPT !.d1 = val, !.d2 = 100 - val, !.off = 0 - val,
                          !.lb = Labels(d[i].lb, val)]
        ELSE d[i]]

\* updatePieChart(val) from the chart slider (shown once a chart was detected)
updatePieChart(val) ==
    /\ pieValue # -1
    /\ pieValue' = val
    /\ LET charts == detectAllPieCharts(dom) IN
       /\ dom' = setPieArcs(dom, val)
       /\ IF charts = {}
          THEN tasks' = tasks
          ELSE /\ Len(tasks) < MaxTimers
               /\ tasks' = Append(tasks, CommitTask(colorValues))
    /\ last' = [Op("pie") EXCEPT !.p = val, !.dom0 = dom]
    /\ UNCHANGED <<template, histVars, skipPush, bodyHTML, colorValues, lastSynced, multiSelected, resizeTarget,
                   effColors, pendingSetup, selected, detached, colorTimer,
                   storeVars, copied, room, isEditMode, uiVars>>

(* ---------------------------- specifications --------------------------- *)

\* the session once the template engine is ready: the init effect has pushed
\* the initial snapshot and the first render has filled the live document
InitSession(id, lim, stored, cps) ==
    LET parsed == parseTemplateHtml(id) IN
    /\ template = id
    /\ history = << Snapshot(parsed.bodyHTML, parsed.initialColors) >>
    /\ historyIndex = 0
    /\ skipPush = FALSE
    /\ tasks = <<>>
    /\ bodyHTML = parsed.bodyHTML
    /\ colorValues = parsed.initialColors
    /\ \E g \in Stamps : dom = setupEditable(parsed.bodyHTML, g)
    /\ lastSynced = <<parsed.bodyHTML>>
    /\ effColors = parsed.initialColors
    /\ pendingSetup = 2
    /\ colorTimer = <<>>
    /\ saveTimer = << [id |-> id,
                       snap |-> Snapshot(parsed.bodyHTML, parsed.initialColors)] >>
    /\ storage = stored
    /\ hasSavedState = (stored[id] # <<>>)
    /\ copies = cps
    /\ selected = 0
    /\ detached = <<>>
    /\ copied = <<>>
    /\ pieValue = detectPieChart(parsed.bodyHTML)
    /\ multiSelected = {}
    /\ marquee = <<>>
    /\ textToolbar = FALSE
    /\ floatingImages = <<>>
    /\ isBusy = FALSE
    /\ hasError = FALSE
    /\ resizeTarget = 0
    /\ resizingRef = <<>>
    /\ exports = <<>>
    /\ room = lim
    /\ isEditMode = TRUE
    /\ last = Op("init")

NoStorage == [t \in TemplateIds |-> <<>>]
NoCopies == [t \in TemplateIds |-> {}]

(* The editing specification: a template with one editable paragraph;      *)
(* typing, focus loss, formatting, undo and redo.                          *)

Next ==
    \/ undo
    \/ undoAtStart
    \/ redo
    \/ redoAtTail
    \/ ClearSkip
    \/ \E i \in 1..Len(dom), t \in Texts : TypeText(i, t)
    \/ onBlur
    \/ \E i \in 1..Len(dom), f \in Fmts : onFormat(i, f)
    \/ SetupRetry

Spec ==
    /\ InitSession(1, MaxLen, NoStorage, NoCopies)
    /\ [][Next]_vars

(* The history specification: templates without text, a copy and a saved   *)
(* state left by an earlier session; reset, load-copy and restore drive    *)
(* the history to its capacity, template changes re-initialise it.         *)

SavedCopy == Snapshot(<<Box(0)>>, [DefaultColors EXCEPT !["--fg"] = "#112233"])

NextCap ==
    \/ undo
    \/ undoAtStart
    \/ redo
    \/ redoAtTail
    \/ ClearSkip
    \/ restoreSavedState
    \/ resetToOriginal
    \/ \E saved \in copies[template] : loadCopy(saved)
    \/ \E id \in {3, 4} : TemplateChange(id)

SpecCap ==
    /\ InitSession(3, MAX_HISTORY + 1,
                   [t \in TemplateIds |-> IF t = 3 THEN <<SavedCopy>> ELSE <<>>],
                   [t \in TemplateIds |-> IF t \in {3, 4} THEN {SavedCopy} ELSE {}])
    /\ [][NextCap]_vars

(* The colour specification: colour inputs, the debounce timer, undo, redo. *)

NextColor ==
    \/ \E v \in ColorVars, x \in ColorVals : onColorInput(v, x)
    \/ ColorTimerFire
    \/ undo
    \/ redo
    \/ ClearSkip

SpecColor ==
    /\ InitSession(3, MaxLen, NoStorage, NoCopies)
    /\ [][NextColor]_vars

(* The auto-save specification: colour inputs and their debounce timer,     *)
(* the auto-save timer, reset and a change of template.                    *)

NextSave ==
    \/ \E x \in ColorVals : onColorInput("--bg", x)
    \/ ColorTimerFire
    \/ resetColors
    \/ DeferredCommit
    \/ SaveTimerFire
    \/ resetToOriginal
    \/ \E id \in {1, 3} : TemplateChange(id)

SpecSave ==
    /\ InitSession(3, MaxLen, NoStorage, NoCopies)
    /\ [][NextSave]_vars

(* The waiting specification: a session opened over a state saved by an   *)
(* earlier one; the auto-save timer, the two buttons of the banner, colour  *)
(* edits, undo and redo.                                                    *)

NextWait ==
    \/ SaveTimerFire
    \/ restoreSavedState
    \/ clearSavedState
    \/ \E x \in ColorVals : onColorInput("--bg", x)
    \/ ColorTimerFire
    \/ undo
    \/ redo
    \/ ClearSkip

SpecWait ==
    /\ InitSession(3, MaxLen - 1,
                   [t \in TemplateIds |-> IF t = 3 THEN <<SavedCopy>> ELSE <<>>],
                   NoCopies)
    /\ [][NextWait]_vars

(* The preview specification: one paragraph; the mode buttons, typing,     *)
(* colour inputs and the keyboard shortcuts for undo and redo (the Undo and *)
(* Redo buttons are disabled in read mode).                                 *)

NextPreview ==
    \/ \E b \in BOOLEAN : setIsEditMode(b)
    \/ \E i \in 1..Len(dom), t \in Texts : TypeText(i, t)
    \/ \E x \in ColorVals : onColorInput("--bg", x)
    \/ ColorTimerFire
    \/ undo
    \/ redo
    \/ ClearSkip

SpecPreview ==
    /\ InitSession(1, MaxLen - 1, NoStorage, NoCopies)
    /\ [][NextPreview]_vars

(* The clipboard specification: a block and an image; select, copy,        *)
(* delete, paste, undo and redo.                                           *)

NextClip ==
    \/ \E i \in 1..Len(dom) : selectElement(i)
    \/ clearElementSelection
    \/ copySelectedElement
    \/ deleteSelectedElement
    \/ pasteElement
    \/ undo
    \/ redo
    \/ ClearSkip

SpecClip ==
    /\ InitSession(4, MaxLen, NoStorage, NoCopies)
    /\ [][NextClip]_vars

(* The same operations on a block and an image inside a wrapper element.   *)

SpecDetach ==
    /\ InitSession(12, MaxLen, NoStorage, NoCopies)
    /\ [][NextClip]_vars

(* The chart specification: two charts; the slider, the deferred commit,   *)
(* undo and redo.                                                          *)

PieVals == {0, 30, 50, 70, 100}

NextChart ==
    \/ \E val \in PieVals : updatePieChart(val)
    \/ DeferredCommit
    \/ undo
    \/ redo
    \/ ClearSkip

SpecChart ==
    /\ InitSession(5, MaxLen, NoStorage, NoCopies)
    /\ [][NextChart]_vars

(* The bar specification: templates with grid rows; typing in a value      *)
(* cell and focus loss.                                                    *)

RowVals == {-1, 4, 5, 50, 95, 96, 150}

NextBars ==
    \/ \E i \in 1..Len(dom), t \in RowVals : onInput(i, t)
    \/ onBlur

SpecBars ==
    /\ \E id \in 6..8 : InitSession(id, MaxLen - 1, NoStorage, NoCopies)
    /\ [][NextBars]_vars

(* The focus-loss specification: one paragraph, or one grid row; typing,   *)
(* focus loss and the re-runs of the editable-region discovery.            *)

NextBlur ==
    \/ \E i \in 1..Len(dom), t \in Texts : TypeText(i, t)
    \/ \E i \in 1..Len(dom), t \in RowVals : onInput(i, t)
    \/ onBlur
    \/ SetupRetry

SpecBlur ==
    /\ \E id \in {1, 6} : InitSession(id, MaxLen - 1, NoStorage, NoCopies)
    /\ [][NextBlur]_vars

(* The marquee specification: three paragraphs; ctrl-click on a region     *)
(* and marquee drags.                                                      *)

NextMarquee ==
    \/ \E i \in 1..Len(dom) : toggleMultiSelect(i)
    \/ \E x \in 0..GridW, y \in 0..GridH : onMarqueeMouseDown(x, y)
    \/ \E x \in 0..GridW, y \in 0..GridH : onMove(x, y)
    \/ onUp

SpecMarquee ==
    /\ InitSession(9, MaxLen, NoStorage, NoCopies)
    /\ [][NextMarquee]_vars

(* The multi-format specification: three paragraphs; ctrl-click on a       *)
(* region, the toggle-style format buttons and focus loss.                 *)

NextMultiFormat ==
    \/ \E i \in 1..Len(dom) : toggleMultiSelect(i)
    \/ \E q \in 0..Len(dom), f \in Fmts : onFormatMulti(q, f)
    \/ onBlur

SpecMultiFormat ==
    /\ InitSession(9, MaxLen, NoStorage, NoCopies)
    /\ [][NextMultiFormat]_vars

(* The font specification: two paragraphs of different sizes; ctrl-click   *)
(* on a region, the font size steppers and focus loss.                     *)

NextFont ==
    \/ \E i \in 1..Len(dom) : toggleMultiSelect(i)
    \/ \E delta \in {FONT_SIZE_STEP, 0 - FONT_SIZE_STEP} : onFontSizeStep(delta)
    \/ onBlur

SpecFont ==
    /\ InitSession(10, MaxLen, NoStorage, NoCopies)
    /\ [][NextFont]_vars

(* The floating-image specification: a template with a stored copy; image *)
(* overlays are added, dragged, resized, rotated and deleted while the     *)
(* copy is loaded (a push) and the document is undone and redone.          *)

\* no overlay has a gesture in progress
NoGesture ==
    \A j \in 1..Len(floatingImages) :
        floatingImages[j].dragRef = <<>> /\ floatingImages[j].resizeRef = <<>>

\* the image handlers as one pointer drives them: it goes down on an overlay
\* only after it went up on the last one
ImageSteps ==
    \/ \E now \in 1..MaxImages, n \in NaturalSizes : addFloatingImage(now, n[1], n[2])
    \/ \E k \in 1..MaxImages : NoGesture /\ onPointerDownMove(k)
    \/ \E k \in 1..MaxImages : NoGesture /\ onPointerDownResize(k)
    \/ \E k \in 1..MaxImages, d \in Deltas : onPointerMoveHandler(k, d[1], d[2])
    \/ \E k \in 1..MaxImages : onPointerUp(k)
    \/ \E k \in 1..MaxImages : onRotate(k)
    \/ \E k \in 1..MaxImages : onDelete(k)

NextFloat ==
    \/ ImageSteps
    \/ \E saved \in copies[template] : loadCopy(saved)
    \/ undo
    \/ redo
    \/ ClearSkip

SpecFloat ==
    /\ InitSession(3, MaxLen - 1, NoStorage,
                   [t \in TemplateIds |-> IF t = 3 THEN {SavedCopy} ELSE {}])
    /\ [][NextFloat]_vars

(* The aspect specification: one pointer resizes one image overlay in     *)
(* every aspect mode, down to the floor, along either axis.                *)

NextAspect ==
    \/ \E n \in NaturalSizes :
           floatingImages = <<>> /\ addFloatingImage(1, n[1], n[2])
    \/ \E mode \in {"freeform", "1:1", "4:3", "16:9"} : onAspectChange(1, mode)
    \/ NoGesture /\ onPointerDownResize(1)
    \/ \E d \in {<<-100, 0>>, <<-20, -100>>} : onPointerMoveHandler(1, d[1], d[2])
    \/ onPointerUp(1)

SpecAspect ==
    /\ InitSession(3, MaxLen - 1, NoStorage, NoCopies)
    /\ [][NextAspect]_vars

(* The reset specification: image overlays, reset-to-original and template *)
(* changes.                                                                *)

NextReset ==
    \/ ImageSteps
    \/ resetToOriginal
    \/ \E id \in {1, 3} : TemplateChange(id)

SpecReset ==
    /\ InitSession(1, MaxLen, NoStorage, NoCopies)
    /\ [][NextReset]_vars

(* The storage specification: the stored value is any of the texts a      *)
(* browser can hold under the key; restore, load-copy, undo and redo, and  *)
(* writes to the key from outside the session.                             *)

StoredValues ==
    {<<>>, <<NotJson>>, <<JsonNull>>, <<JsonEmpty>>,
     <<JsonNoColors(<<Box(0)>>)>>, <<JsonNoColors(<<Box(0), Box(0)>>)>>,
     <<SavedCopy>>}

\* once the fallback is shown the editor is unmounted
NextStore ==
    \/ ~hasError /\ restoreSavedState
    \/ \E v \in StoredValues : ~hasError /\ storageEvent(v)
    \/ \E saved \in copies[template] : ~hasError /\ loadCopy(saved)
    \/ ~hasError /\ undo
    \/ ~hasError /\ redo
    \/ ~hasError /\ ClearSkip

SpecStore ==
    /\ \E v \in StoredValues \ {<<>>} :
           InitSession(3, MaxLen,
                       [t \in TemplateIds |-> IF t = 3 THEN v ELSE <<>>],
                       [t \in TemplateIds |-> IF t = 3 THEN {SavedCopy} ELSE {}])
    /\ [][NextStore]_vars

(* The export specification: a template with a stored copy; the four      *)
(* export buttons and the completions of their asynchronous steps, while   *)
(* the copy is loaded and the document undone and redone.                  *)

ExportSteps ==
    \/ \E type \in ExportTypes : onExport(type)
    \/ \E k \in 1..MaxExports, ok \in BOOLEAN : captureToCanvas(k, ok)
    \/ \E k \in 1..MaxExports, ok \in BOOLEAN : importJsPdf(k, ok)
    \/ \E k \in 1..MaxExports, blob \in BOOLEAN : toBlob(k, blob)
    \/ \E k \in 1..MaxExports, ok \in BOOLEAN : clipboardWrite(k, ok)

NextExport ==
    \/ ExportSteps
    \/ \E saved \in copies[template] : loadCopy(saved)
    \/ undo
    \/ redo
    \/ ClearSkip

SpecExport ==
    /\ InitSession(3, MaxLen - 1, NoStorage,
                   [t \in TemplateIds |-> IF t = 3 THEN {SavedCopy} ELSE {}])
    /\ [][NextExport]_vars

(* The gesture specification: one paragraph and image overlays, with as   *)
(* many pointers as there are gestures: pointers go down on an image, on   *)
(* its resize corner, on a handle of the text outline and on the empty     *)
(* canvas, and go up again.                                                *)

NextGesture ==
    \/ \E now \in 1..MaxImages, n \in NaturalSizes : addFloatingImage(now, n[1], n[2])
    \/ \E k \in 1..MaxImages : onPointerDownMove(k)
    \/ \E k \in 1..MaxImages : onPointerDownResize(k)
    \/ \E k \in 1..MaxImages : onPointerUp(k)
    \/ \E i \in 1..Len(dom) : toggleMultiSelect(i)
    \/ \E pos \in {p \in HANDLE_POSITIONS : p.id = "e"} : onHandlePointerDown(pos)
    \/ onHandlePointerUp
    \/ onMarqueeMouseDown(0, 0)
    \/ onUp

SpecGesture ==
    /\ InitSession(11, MaxLen, NoStorage, NoCopies)
    /\ [][NextGesture]_vars

(* The resize specification: one paragraph 60 by 30 px; ctrl-click on it,  *)
(* then drags of the eight handles of its outline, one pointer at a time.  *)

\* pointer travel (clientX - startX, clientY - startY) of a pointer move
ResizeTravel == {<<-10, -10>>, <<50, 50>>}

NextResize ==
    \/ \E i \in 1..Len(dom) : resizingRef = <<>> /\ toggleMultiSelect(i)
    \/ \E pos \in HANDLE_POSITIONS : resizingRef = <<>> /\ Room /\ onHandlePointerDown(pos)
    \/ \E d \in ResizeTravel :
           /\ resizingRef # <<>>
           /\ runResize(resizingRef[1].startX + d[1], resizingRef[1].startY + d[2])
    \/ onHandlePointerUp

SpecResize ==
    /\ InitSession(11, MaxLen, NoStorage, NoCopies)
    /\ [][NextResize]_vars

(* The skip-flag specification: the colour specification with the timers  *)
(* of restoreSnapshot running whenever they are due.                       *)

SpecSkip ==
    /\ InitSession(3, MaxLen, NoStorage, NoCopies)
    /\ [][NextColor]_vars
    /\ WF_vars(ClearSkip)

(* ------------------------------ properties ---------------------------- *)

\* a handler other than the template change called pushSnapshot in this step
\* and the snapshot was recorded
RecordedPush == last'.rec /\ last'.att # <<>>

\* C1 as stated: the history never holds more than MAX_HISTORY snapshots,
\* and every recorded push onto a history of MAX_HISTORY snapshots removes
\* the oldest one and leaves the cursor on the pushed snapshot.
C1_AsStated ==
    /\ [](Len(history) <= MAX_HISTORY)
    /\ [][ (RecordedPush /\ Len(history) = MAX_HISTORY)
             => /\ history' = Append(Tail(history), last'.att[1])
                /\ historyIndex' = Len(history') - 1 ]_vars

\* C1 amended: the history never holds more than MAX_HISTORY snapshots; a
\* recorded push onto a history of MAX_HISTORY snapshots leaves the cursor
\* on the pushed snapshot, the last one; it removes the oldest snapshot when
\* the cursor was at the tail, and otherwise keeps the oldest and discards
\* the snapshots after the cursor.
C1_Capacity ==
    /\ [](Len(history) <= MAX_HISTORY)
    /\ [][ (RecordedPush /\ Len(history) = MAX_HISTORY)
             => /\ historyIndex' = Len(history') - 1
                /\ history'[Len(history')] = last'.att[1]
                /\ IF historyIndex = MAX_HISTORY - 1
                   THEN history' = Append(Tail(history), last'.att[1])
                   ELSE history' = Append(SubSeq(history, 1, historyIndex + 1),
                                          last'.att[1]) ]_vars

\* a push has just evicted the oldest snapshot of a full history
C1_Witness ==
    /\ last.rec /\ last.ev
    /\ Len(history) = MAX_HISTORY
    /\ historyIndex = MAX_HISTORY - 1
    /\ history[MAX_HISTORY] = last.att[1]

\* C2: whenever the history holds a snapshot, the cursor is an index of it.
C2_CursorValid ==
    Len(history) >= 1 => (0 <= historyIndex /\ historyIndex < Len(history))

\* an undo has just moved the cursor of a full history off its tail
C2_Witness ==
    /\ last.op = "undo" /\ last.moved
    /\ Len(history) = MAX_HISTORY
    /\ historyIndex = MAX_HISTORY - 2

\* C3: an undo right after a push that recorded s on top of t restores t
\* (cursor, markup and colours); a redo right after an undo restores the
\* snapshot the undo left; undo at index 0 and redo at the tail change
\* neither the cursor, the history nor the document.
C3_UndoRedoInverse ==
    [][ /\ (last.rec /\ last.top0 # <<>> /\ last'.op = "undo")
            => /\ last'.moved
               /\ Snapshot(bodyHTML', colorValues') = last.top0[1]
               /\ AtCursor(history', historyIndex') = last.top0
               /\ history' = history
        /\ (last.op = "undo" /\ last.moved /\ last'.op = "redo")
            => /\ last'.moved
               /\ Snapshot(bodyHTML', colorValues') = last.top0[1]
               /\ AtCursor(history', historyIndex') = last.top0
               /\ history' = history
        /\ (last'.op = "undo" /\ historyIndex <= 0)
            => UNCHANGED <<history, historyIndex, dom, bodyHTML, colorValues>>
        /\ (last'.op = "redo" /\ historyIndex >= Len(history) - 1)
            => UNCHANGED <<history, historyIndex, dom, bodyHTML, colorValues>>
      ]_vars

\* a redo has just restored the snapshot that an undo had left
C3_Witness ==
    /\ last.op = "redo" /\ last.moved
    /\ historyIndex = Len(history) - 1
    /\ Snapshot(bodyHTML, colorValues) = history[historyIndex + 1]

\* the markup without the regenerated data-element-id attributes
Content(d) == [i \in 1..Len(d) |-> [d[i] EXCEPT !.eid = 0]]

\* C4 as stated: an undo that moved the cursor followed by a redo leaves the
\* live document (here: up to regenerated element ids) and the live colours
\* as they were before the undo.
C4_AsStated ==
    [][ (last.op = "undo" /\ last.moved /\ last'.op = "redo")
          => /\ Content(dom') = Content(last.dom0)
             /\ colorValues' = last.col0[1] ]_vars

\* C5: a push of a snapshot equal to the one at the cursor changes neither
\* the history nor the cursor, wherever the cursor is.
C5_EqualPushNoop ==
    [][ (last'.att # <<>> /\ historyIndex >= 0
           /\ last'.att[1] = history[historyIndex + 1])
          => UNCHANGED <<history, historyIndex>> ]_vars

\* a push equal to the snapshot at an interior cursor was attempted while
\* recording was on
C5_Witness ==
    /\ last.att # <<>> /\ ~last.rec /\ ~skipPush
    /\ historyIndex >= 0 /\ historyIndex < Len(history) - 1
    /\ last.att[1] = history[historyIndex + 1]

\* C6: a recorded push with the cursor before the tail leaves the snapshots
\* up to the cursor followed by the pushed one, the cursor on it, and
\* nothing to redo.
C6_PushDiscardsRedo ==
    [][ (RecordedPush /\ historyIndex < Len(history) - 1)
          => /\ history' = Append(SubSeq(history, 1, historyIndex + 1), last'.att[1])
             /\ historyIndex' = Len(history') - 1
             /\ ~canRedo' ]_vars

\* a push has just discarded the snapshots after the cursor
C6_Witness ==
    /\ last.rec /\ last.cut
    /\ historyIndex = Len(history) - 1
    /\ history[Len(history)] = last.att[1]

\* C7 as stated: an undo right after a formatting operation that changed
\* the live document leaves the live document (up to regenerated element
\* ids) as it was before the operation.
C7_AsStated ==
    [][ (last.op = "format" /\ last.flag /\ last'.op = "undo")
          => Content(dom') = Content(last.dom0) ]_vars

\* C8 as stated: when the debounce timer of the input "set v to x" has
\* fired, the snapshot at the cursor maps v to x.
C8_AsStated ==
    [][ (last'.op = "colorTimer")
          => /\ historyIndex' >= 0
             /\ history'[historyIndex' + 1].colors[colorTimer[1].v] = colorTimer[1].x
      ]_vars

\* the document without the selection marker and the element ids
Structure(d) == [i \in 1..Len(d) |-> [d[i] EXCEPT !.eid = 0, !.sel = FALSE]]

\* C9 as stated: a paste right after the deletion of the element that was
\* copied gives back the document as it was before the deletion, up to the
\* marker, and adds exactly one snapshot to the history.
C9_AsStated ==
    [][ (last.op = "delete" /\ last.flag /\ last'.op = "paste")
          => /\ Structure(dom') = Structure(last.dom0)
             /\ Len(history') = Len(history) + 1 ]_vars

\* C10 as stated: after updatePieChart(p) every chart of the document has
\* dash lengths p and 100 - p and offset -p.
C10_AsStated ==
    last.op = "pie"
        => \A i \in 1..Len(dom) :
               dom[i].kind = "chart"
                   => /\ dom[i].d1 = last.p
                      /\ dom[i].d2 = 100 - last.p
                      /\ dom[i].off = 0 - last.p

\* C11 as stated: right after updatePieChart(p), the calls
\* updatePieChart(100 - p) and updatePieChart(p) give back the dash arrays,
\* offsets and percentage labels the charts have now.
C11_AsStated ==
    last.op = "pie" => setPieArcs(setPieArcs(dom, 100 - last.p), last.p) = dom

\* the row as syncDemographicBars leaves it was written by it
Written(e) == e.kind = "row" /\ syncRow(e) # e

Overlap(a, b) ==
    /\ Max(a.left, b.left) <= Min(a.right, b.right)
    /\ Max(a.top, b.top) <= Min(a.bottom, b.bottom)

\* the rectangle spanned by the start and the end of a drag
DragRect(m) ==
    [left |-> Min(m.startX, m.endX), right |-> Max(m.startX, m.endX),
     top |-> Min(m.startY, m.endY), bottom |-> Max(m.startY, m.endY)]

\* C13: the release of a marquee drag leaves in the multi-selection exactly
\* the editable regions whose bounding box has a point in common with the
\* drag rectangle, whatever the set held before; when there is none, the
\* set is empty and the formatting toolbar is closed.
C13_MarqueeSelectsHits ==
    [][ last'.op = "marqueeUp"
          => /\ multiSelected' =
                    {i \in Editables(dom) :
                         Overlap(BoundingRect(i), DragRect(marquee[1]))}
             /\ multiSelected' = {} => ~textToolbar' ]_vars

\* a drag that touched no region has just emptied a multi-selection
C13_Witness ==
    /\ last.op = "marqueeUp" /\ last.flag
    /\ multiSelected = {} /\ ~textToolbar

\* C14 as stated: a font-size step of +2 on a multi-selection leaves the
\* text of every selected region 2 px larger than it was.
C14_AsStated ==
    [][ (last'.op = "fontStep" /\ last'.p = FONT_SIZE_STEP)
          => \A i \in multiSelected :
                 i > 0 => EffectiveSize(dom'[i]) = EffectiveSize(dom[i]) + 2 ]_vars

FloatOps == {"addImage", "imageDown", "imageMove", "imageUp", "rotateImage",
             "aspectImage", "deleteImage"}

\* C15: a step that adds, moves, resizes, rotates or deletes a floating image
\* leaves the history and its cursor as they were, and every other step
\* (push, undo, redo among them) leaves the floating-image list as it was.
C15_ImagesOutsideHistory ==
    [][ /\ last'.op \in FloatOps
            => history' = history /\ historyIndex' = historyIndex
        /\ last'.op \notin FloatOps => floatingImages' = floatingImages ]_vars

\* an undo with a moved and rotated floating image on the canvas
C15_Witness ==
    /\ last.op = "undo" /\ last.moved
    /\ Len(floatingImages) > 0
    /\ floatingImages[1].x # 50
    /\ floatingImages[1].rotation # 0

\* C16 as stated: after reset-to-original and after a template change the
\* floating-image list is empty.
C16_AsStated ==
    last.op \in {"reset", "template"} => floatingImages = <<>>

\* C17 as stated: whatever the stored value, a restore never ends in the
\* error fallback, and it either leaves document, colours and history as they
\* were or leaves them at the stored snapshot, which is then at the cursor.
C17_AsStated ==
    [][ last'.op = "restore"
          => /\ ~hasError'
             /\ \/ /\ bodyHTML' = bodyHTML /\ colorValues' = colorValues
                   /\ history' = history /\ historyIndex' = historyIndex
                \/ /\ storage[template] # <<>>
                   /\ bodyHTML' = storage[template][1].bodyHTML
                   /\ colorValues' = storage[template][1].colors
                   /\ AtCursor(history', historyIndex') = storage[template] ]_vars

\* C18 as stated: at most one export operation is in flight, and the busy
\* flag is set for as long as one is.
C18_AsStated ==
    /\ Len(exports) <= 1
    /\ exports # <<>> => isBusy

\* C19 as stated: a failed export is caught by onExport (its promise does not
\* reject), a notification is shown, and document, colours and history are
\* as they were.
C19_AsStated ==
    [][ last'.op = "exportFailed"
          => /\ ~last'.flag
             /\ last'.toast # ""
             /\ UNCHANGED <<dom, bodyHTML, colorValues, history, historyIndex>> ]_vars

\* C20 as stated: the promise of exportClipboard never rejects, and resolves
\* to false whenever the capture, the encoding or the clipboard write failed.
C20_AsStated ==
    last.type = "clipboard" /\ last.op = "exportFailed" => last.result = "false"

\* the gestures whose ref is not null
ActiveGestures ==
    {g \in {"imageDrag", "imageResize", "textResize", "marquee"} :
        \/ g = "imageDrag" /\ \E j \in 1..Len(floatingImages) :
                                  floatingImages[j].dragRef # <<>>
        \/ g = "imageResize" /\ \E j \in 1..Len(floatingImages) :
                                    floatingImages[j].resizeRef # <<>>
        \/ g = "textResize" /\ resizingRef # <<>>
        \/ g = "marquee" /\ marquee # <<>>}

\* C21 as stated: at most one of image drag, image resize, text-region
\* resize and marquee selection is active in any reachable state.
C21_AsStated == Cardinality(ActiveGestures) <= 1

\* C22: an undo or redo that moves the cursor sets the skip flag; the flag is
\* set only while a timer of restoreSnapshot is pending; and once set it is
\* eventually false again.
C22_SkipFlagClears ==
    /\ [][ last'.op \in {"undo", "redo"} /\ last'.moved => skipPush' ]_vars
    /\ [](skipPush => \E k \in 1..Len(tasks) : tasks[k].k = "skip")
    /\ (skipPush ~> ~skipPush)

\* the timer of an undo has cleared the flag
C22_Witness ==
    /\ last.op = "clearSkip"
    /\ ~skipPush
    /\ historyIndex < Len(history) - 1

\* C23: each debounced concern (colour commit, auto-save) has at most one
\* pending timer; a colour input records nothing itself and restarts the
\* timer with the colours as they are after it; the timer, when it fires,
\* adds at most one snapshot, and a snapshot it adds carries the value of the
\* last input (after a burst of inputs only: the colours as the burst left
\* them).
C23_DebounceBurst ==
    /\ [](Len(colorTimer) <= 1 /\ Len(saveTimer) <= 1)
    /\ [][ last'.op = "colorInput"
             => /\ history' = history /\ historyIndex' = historyIndex
                /\ colorTimer' # <<>>
                /\ colorTimer'[1].colors = colorValues' ]_vars
    /\ [][ last'.op = "colorTimer"
             => /\ colorTimer' = <<>>
                /\ historyIndex' <= historyIndex + 1
                /\ Len(history') <= Len(history) + 1
                /\ last'.rec
                     => /\ history'[historyIndex' + 1].colors[colorTimer[1].v] = colorTimer[1].x
                        /\ last.op = "colorInput"
                             => history'[historyIndex' + 1].colors = colorValues ]_vars

\* a burst of two inputs (both variables changed) was recorded as one snapshot
C23_Witness ==
    /\ last.op = "colorTimer" /\ last.rec /\ historyIndex >= 1
    /\ \A v \in ColorVars :
          history[historyIndex + 1].colors[v] # history[historyIndex].colors[v]

\* C24 as stated: whenever no auto-save timer is pending, the value stored
\* under the key of the current template is the serialisation of the snapshot
\* recorded last (the last of the history), and no step writes the key of a
\* template other than the current one.
C24_AsStated ==
    /\ [](saveTimer = <<>> /\ history # <<>>
            => storage[template] = <<JSONstringify(history[Len(history)])>>)
    /\ [][ \A id \in TemplateIds : id # template' => storage'[id] = storage[id] ]_vars

\* C25 as stated: a paste while an element of the live document is selected
\* puts the clone right after it, a paste while nothing is selected puts it
\* at the end; the clone carries no selected marker; and the paste records
\* exactly one snapshot, that of the document it left.
C25_AsStated ==
    [][ (last'.op = "paste" /\ selected >= 0)
          => LET at == IF selected > 0 THEN selected + 1 ELSE Len(dom) + 1 IN
             /\ Len(dom') = Len(dom) + 1
             /\ Structure(dom') = Structure(InsertAfter(dom, at - 1, copied[1]))
             /\ ~dom'[at].sel
             /\ last'.rec
             /\ historyIndex' = historyIndex + 1
             /\ history'[historyIndex' + 1].bodyHTML = dom' ]_vars

\* C26 as stated: while the selected node is detached from the document, a
\* copy leaves the clipboard alone (there is nothing to copy) and a paste
\* puts the clone at the end of the live document.
C26_AsStated ==
    [][ selected < 0
          => /\ last'.op = "copy" => copied' = copied
             /\ last'.op = "paste"
                  => Structure(dom') = Structure(Append(dom, copied[1])) ]_vars

\* C27 as stated: a toggle-style format applied while two or more regions of
\* the live document are in the multi-selection, all of one format, and
\* that changed the document, has changed the format of every region of the
\* set.
C27_AsStated ==
    [][ (/\ last'.op = "formatMulti" /\ last'.flag
         /\ Cardinality(multiSelected) > 1
         /\ \A i \in multiSelected : i > 0
         /\ \A i, j \in multiSelected : dom[i].fmt = dom[j].fmt)
          => \A i \in multiSelected : dom'[i].fmt # dom[i].fmt ]_vars

C29_AsStated ==
    [][ (/\ last.op \in {"blur", "setup"} /\ last'.op = "blur"
         /\ historyIndex >= 0
         /\ Content(dom) = Content(history[historyIndex + 1].bodyHTML)
         /\ effColors = history[historyIndex + 1].colors)
          => UNCHANGED <<history, historyIndex>> ]_vars

\* C30 as stated: while a handle of the west side is dragged the east edge
\* of the target stays where it was when the drag began, and while a handle
\* of the north side is dragged the south edge does.
C30_AsStated ==
    [][ last'.op = "runResize"
          => LET r == resizingRef[1]
                 box == ClientRect(dom', resizeTarget)
             IN /\ r.handle \in {"w", "nw", "sw"} => box.right = r.startLeft + r.startW
                /\ r.handle \in {"n", "nw", "ne"} => box.bottom = r.startTop + r.startH ]_vars

\* C31: a pointer press on a resize handle and the pointer moves of the drag
\* leave the history and the cursor as they are; the release ends the drag
\* and calls commitFromDom once, which records at most one snapshot, that of
\* the resized document.
C31_CommitOnRelease ==
    /\ [][ last'.op \in {"handleDown", "runResize"}
             => UNCHANGED <<history, historyIndex>> /\ last'.att = <<>> ]_vars
    /\ [][ last'.op = "handleUp"
             => /\ resizingRef # <<>> /\ resizingRef' = <<>>
                /\ last'.att = << Snapshot(dom, colorValues) >>
                /\ Len(history') <= Len(history) + 1
                /\ historyIndex' <= historyIndex + 1
                /\ last'.rec => history'[historyIndex' + 1] = last'.att[1] ]_vars

\* a release has recorded the document a drag resized
C31_Witness ==
    /\ last.op = "handleUp" /\ last.rec /\ historyIndex >= 1
    /\ \E i \in 1..Len(dom) :
          /\ history[historyIndex + 1].bodyHTML[i].style # <<>>
          /\ history[historyIndex].bodyHTML[i].style = <<>>

\* C32: after a resize move of a floating image, in a fixed-ratio mode the
\* width is to the height as the locked ratio, the axis with the larger
\* absolute travel (the width on a tie) being max(20, its size at the press
\* plus its travel); in freeform mode the width is max(20, origW + dx) and the
\* height is max(20, origH + dy).
C32_AspectResize ==
    [][ last'.op = "imageMove" /\ last'.flag
          => LET k == last'.p
                 dx == last'.att[1]
                 dy == last'.att[2]
                 img == floatingImages[k]
                 after == floatingImages'[k]
                 ratio == getAspectRatio(img)
                 origW == img.resizeRef[1].origW
                 origH == img.resizeRef[1].origH
                 \* v = max(20, orig + d)
                 Floored(v, orig, d) ==
                     IF orig[1] + d * orig[2] < 20 * orig[2] THEN v = <<20, 1>>
                     ELSE v[1] * orig[2] = (orig[1] + d * orig[2]) * v[2]
             IN IF img.aspectMode = "freeform"
                THEN /\ Floored(after.width, origW, dx)
                     /\ Floored(after.height, origH, dy)
                ELSE /\ img.aspectMode \in {"1:1", "4:3", "16:9"}
                     /\ after.width[1] * after.height[2] * ratio[2]
                            = after.height[1] * after.width[2] * ratio[1]
                     /\ IF Abs(dx) >= Abs(dy)
                        THEN Floored(after.width, origW, dx)
                        ELSE Floored(after.height, origH, dy) ]_vars

\* a 4:3 image resized along its height, the width following
C32_Witness ==
    /\ last.op = "imageMove" /\ last.flag
    /\ Abs(last.att[1]) < Abs(last.att[2])
    /\ floatingImages[last.p].aspectMode = "4:3"
    /\ floatingImages[last.p].width[2] > 1
    /\ floatingImages[last.p].width # floatingImages[last.p].resizeRef[1].origW

\* C39 as stated: once a resize move has acted on a floating image, its width
\* and its height are both at least 20.
C39_AsStated ==
    last.op = "imageMove" /\ last.flag
        => /\ floatingImages[last.p].width[1] >= 20 * floatingImages[last.p].width[2]
           /\ floatingImages[last.p].height[1] >= 20 * floatingImages[last.p].height[2]

\* C33 as stated: while the banner is up and nothing but the initial snapshot
\* has been recorded, storage holds the state the previous session saved; and
\* a restore that is the first push after the initial one leaves the document
\* and the colours at that state.
C33_AsStated ==
    LET parsed == parseTemplateHtml(template)
        initial == Snapshot(parsed.bodyHTML, parsed.initialColors)
        saved == JSONparse(SavedCopy)[1]
    IN /\ hasSavedState /\ history = <<initial>> /\ colorTimer = <<>>
           => storage[template] = <<SavedCopy>>
       /\ last.op = "restore" /\ ~last.cut /\ history[1] = initial
            /\ Len(history) <= 2
           => bodyHTML = saved.bodyHTML /\ colorValues = saved.colors

\* C38 as stated: when the auto-save timer is the only timer pending after a
\* reset-to-original and it elapses, storage holds no saved state for the
\* document.
C38_AsStated ==
    [][ (last.op = "reset" /\ colorTimer = <<>> /\ tasks = <<>>
            /\ last'.op = "saveTimer")
          => storage'[template] = <<>> ]_vars

\* C34 as stated: a snapshot recorded by a deferred commit from the live
\* document carries the live colour values, and after the commit that Reset
\* Colors deferred the snapshot at the cursor maps every variable to its
\* default value.
C34_AsStated ==
    last.op = "deferredCommit"
        => /\ last.rec => history[historyIndex + 1].colors = colorValues
           /\ history[historyIndex + 1].colors
                  = parseTemplateHtml(template).initialColors

\* C35 as stated: after an undo or a redo that moved the cursor, the live
\* document (up to regenerated element ids) is the markup of the snapshot at
\* the cursor.
C35_AsStated ==
    last.op \in {"undo", "redo"} /\ last.moved
        => Content(dom) = Content(history[historyIndex + 1].bodyHTML)

\* C36 as stated: a push of a snapshot that differs from the snapshot at the
\* cursor is recorded.
C36_AsStated ==
    last.att # <<>> /\ last.att # last.top0 => last.rec

\* C37 as stated: after an undo or a redo that moved the cursor, the value of
\* the chart control is the first dash length of the chart detected in the
\* live document.
C37_AsStated ==
    (last.op \in {"undo", "redo"} /\ last.moved /\ pieValue # -1
       /\ detectPieChart(dom) # -1)
        => pieValue = detectPieChart(dom)

\* C40 as stated: in read mode a keystroke, a colour input, an undo or a redo
\* leaves the history, its cursor, the document markup and the colours as
\* they were.
C40_AsStated ==
    [][ (~isEditMode /\ last'.op \in {"type", "colorInput", "undo", "redo"})
          => /\ UNCHANGED <<history, historyIndex, bodyHTML, colorValues>>
             /\ Content(dom') = Content(dom) ]_vars
====
